---- MODULE Spec2Model ----
(***************************************************************************)
(* A model of the idx crate (Ceikry/idx): the read-only engine for the     *)
(* IDX/DAT asset cache format.                                             *)
(*                                                                         *)
(*   src/src/lib.rs   Cache, CacheIndex, IdxContainerInfo, container_data  *)
(*   src/src/util.rs  FileProvider, get_name_hash, decompress_container_   *)
(*                    data                                                 *)
(*                                                                         *)
(* Files are byte sequences.  A fixed-size zero-initialised array that a   *)
(* read fills ([u8; 6], [u8; 520]) is kept as the prefix that was read;    *)
(* the bytes after the prefix are the zeros the array was created with.    *)
(***************************************************************************)
EXTENDS Integers, Sequences, FiniteSets, TLC

(***************************************************************************)
(* Program constants.                                                      *)
(***************************************************************************)
SectorPayload == 512
SectorHeader == 8
IdxRecordSize == 6
InfoMaxContainerSize == 500000
IndexMaxContainerSize == 1000000
MaxCompressedSize == 5000000
WhirlpoolSize == 64
GzipHeaderSize == 10
InfoIndexId == 255

(***************************************************************************)
(* Bounds of the model.                                                    *)
(***************************************************************************)
\* calls of load_requested_container_files in one behaviour
MaxLoads == 2

(***************************************************************************)
(* Bytes and fixed-width integers.                                         *)
(***************************************************************************)
\* The model's integers are 32-bit signed; the 32-bit name hash is computed on
\* two 16-bit halves.
Pow2_8 == 2^8
Pow2_16 == 2^16
Pow2_24 == 2^24

\* element i (0-based) of a zero-initialised array whose filled prefix is buf
At(buf, i) == IF i < Len(buf) THEN buf[i + 1] ELSE 0

Min(a, b) == IF a < b THEN a ELSE b

\* big-endian encodings, used to lay out the files of a disk image
BE16(v) == << (v \div Pow2_8) % Pow2_8, v % Pow2_8 >>
BE24(v) == << (v \div Pow2_16) % Pow2_8, (v \div Pow2_8) % Pow2_8, v % Pow2_8 >>
BE32(v) == << (v \div Pow2_24) % Pow2_8, (v \div Pow2_16) % Pow2_8,
              (v \div Pow2_8) % Pow2_8, v % Pow2_8 >>
\* (\div rounds down and % is never negative, so BE32 of a negative i32 is its
\* two's complement)

\* f with key k set to v (HashMap::insert)
Put(f, k, v) == [x \in (DOMAIN f) \cup {k} |-> IF x = k THEN v ELSE f[x]]

EmptyMap == [x \in {} |-> 0]

(***************************************************************************)
(* CacheIndex::container_data: the sector-chain reader.                    *)
(***************************************************************************)
\* self.file.seek(6 * container_id); self.file.read(&mut data): the bytes of
\* the record that lie inside the idx file (a short read leaves the rest 0)
idx_record(idxfile, container_id) ==
  IF container_id < 0 \/ IdxRecordSize * container_id >= Len(idxfile) THEN << >>
  ELSE SubSeq(idxfile, IdxRecordSize * container_id + 1,
              Min(IdxRecordSize * container_id + IdxRecordSize, Len(idxfile)))

idx_container_size(data) ==
  (At(data, 2) % Pow2_8) + (((At(data, 0) % Pow2_8) * Pow2_16) + ((At(data, 1) * Pow2_8) % Pow2_16))

idx_first_sector(data) ==
  ((At(data, 3) % Pow2_8) * Pow2_16) - (-((At(data, 4) % Pow2_8) * Pow2_8) - (At(data, 5) % Pow2_8))

\* data_file.seek(520 * sector); data_file.read(&mut file_buff), its result
\* ignored: past the end of the data file nothing is read and file_buff keeps
\* what it held.  dat is the data file as a sequence of whole 520-byte
\* sectors, as the format has them, sector 0 first.
read_sector(dat, sector, file_buff) ==
  IF sector < Len(dat) THEN dat[sector + 1] ELSE file_buff

hdr_container_id(file_buff) == (At(file_buff, 1) % Pow2_8) + ((At(file_buff, 0) % Pow2_8) * Pow2_8)
hdr_part(file_buff) == ((At(file_buff, 2) % Pow2_8) * Pow2_8) + (At(file_buff, 3) % Pow2_8)
hdr_next_sector(file_buff) ==
  (At(file_buff, 6) % Pow2_8) + ((At(file_buff, 5) % Pow2_8) * Pow2_8) + ((At(file_buff, 4) % Pow2_8) * Pow2_16)
hdr_idx_file_id(file_buff) == At(file_buff, 7) % Pow2_8

\* header_matches without the comparison of the idx file id
header_matches_any_idx(container_id, part, file_id, file_buff) ==
  ~(container_id # hdr_container_id(file_buff) \/ hdr_part(file_buff) # part)

\* the test of line 159, negated: the sector belongs to the chain
header_matches(container_id, part, file_id, file_buff) ==
  ~(container_id # hdr_container_id(file_buff)
      \/ hdr_part(file_buff) # part
      \/ file_id # (hdr_idx_file_id(file_buff) % Pow2_8))

\* data_to_read without the subtraction of what was read
data_to_read_whole(container_size, data_read_count) ==
  IF container_size > SectorPayload THEN SectorPayload ELSE container_size

\* lines 146-150
data_to_read(container_size, data_read_count) ==
  IF container_size - data_read_count > SectorPayload
    THEN SectorPayload
    ELSE container_size - data_read_count

\* for i in 0..data_to_read { container_data.push(file_buff[8 + i]) }
sector_payload(file_buff, n) == [i \in 1..n |-> At(file_buff, SectorHeader + i - 1)]

chain_continues(container_size, data_read_count) == container_size > data_read_count

chain_truncated(sector) == sector = 0

\* the result of a walk: ok = FALSE is None; visited lists the sectors read
\* and whether their payload was appended
walk_result(ok, err, data, visited) ==
  [ok |-> ok, err |-> err, data |-> data, visited |-> visited]

\* chain_truncated_result returning what was read so far
chain_truncated_short(w) == walk_result(TRUE, "none", w.container_data, w.visited)

\* lines 139-142: sector 0 ends the walk with None
chain_truncated_result(w) == walk_result(FALSE, "sector_zero", << >>, w.visited)

\* chain_advance that follows next_sector and counts nothing
chain_advance_idle(w, buf, n) == [w EXCEPT !.sector = hdr_next_sector(buf)]

\* the state of the while loop after a sector that belongs to the chain
chain_advance(w, buf, n) ==
  [sector |-> hdr_next_sector(buf),
   part |-> w.part + 1,
   data_read_count |-> w.data_read_count + n,
   container_data |-> w.container_data \o sector_payload(buf, n),
   visited |-> Append(w.visited, [sector |-> w.sector, appended |-> TRUE])]

\* The while loop of container_data (lines 138-171).  w is the loop's state:
\* sector, part, data_read_count, container_data and the sectors read so far;
\* file_buff is the buffer as the last read left it.
RECURSIVE chain_walk(_, _, _, _, _, _)
chain_walk(dat, file_id, container_id, container_size, w, file_buff) ==
  IF ~chain_continues(container_size, w.data_read_count)
    THEN walk_result(TRUE, "none", w.container_data, w.visited)
  ELSE IF chain_truncated(w.sector)
    THEN chain_truncated_result(w)
  ELSE IF ~header_matches(container_id, w.part, file_id, read_sector(dat, w.sector, file_buff))
    THEN walk_result(FALSE, "multipart", << >>,
                     Append(w.visited, [sector |-> w.sector, appended |-> FALSE]))
  ELSE chain_walk(dat, file_id, container_id, container_size,
                  chain_advance(w, read_sector(dat, w.sector, file_buff),
                                data_to_read(container_size, w.data_read_count)),
                  read_sector(dat, w.sector, file_buff))

\* lines 125-175, with the size and the first sector decoded
container_data_of(file_id, max_container_size, dat, container_id, container_size, sector) ==
  IF container_size > max_container_size
    THEN walk_result(FALSE, "oversize", << >>, << >>)
  ELSE IF sector <= 0
    THEN walk_result(FALSE, "sector_le_zero", << >>, << >>)
  ELSE chain_walk(dat, file_id, container_id, container_size,
                  [sector |-> sector, part |-> 0, data_read_count |-> 0,
                   container_data |-> << >>, visited |-> << >>],
                  << >>)

\* a walk as the properties see it: what was asked, what the record said,
\* and the result
walk_record(file_id, container_id, container_size, sector, res) ==
  [file_id |-> file_id, container_id |-> container_id,
   size |-> container_size, first |-> sector,
   ok |-> res.ok, err |-> res.err, data |-> res.data, visited |-> res.visited]

container_data_at(file_id, max_container_size, dat, container_id, data) ==
  walk_record(file_id, container_id, idx_container_size(data), idx_first_sector(data),
              container_data_of(file_id, max_container_size, dat, container_id,
                                idx_container_size(data), idx_first_sector(data)))

\* container_data(&mut self, data_file, container_id) of a CacheIndex with
\* the given file_id, max_container_size and idx file
container_data(file_id, max_container_size, idxfile, dat, container_id) ==
  container_data_at(file_id, max_container_size, dat, container_id,
                    idx_record(idxfile, container_id))

(***************************************************************************)
(* DataBuffer (the databuffer crate): a cursor over a byte vector.  A read *)
(* that would pass the end of the vector fails (it panics).                *)
(***************************************************************************)
\* can n bytes be read at position rpos (0-based)?
can_read(bytes, rpos, n) == rpos + n <= Len(bytes)

\* the reads below are used only where can_read holds, or on a parse that is
\* already known to fail; out of range they give 0
read_u8(bytes, rpos) == At(bytes, rpos)
read_u16(bytes, rpos) == At(bytes, rpos) * Pow2_8 + At(bytes, rpos + 1)
\* four bytes as a two's complement i32
read_i32(bytes, rpos) ==
  (IF At(bytes, rpos) >= 128 THEN At(bytes, rpos) - Pow2_8 ELSE At(bytes, rpos)) * Pow2_24
    + At(bytes, rpos + 1) * Pow2_16 + At(bytes, rpos + 2) * Pow2_8 + At(bytes, rpos + 3)
\* A u32 is held as the i32 with the same 32 bits, so that it fits the model's
\* integers: equality is unchanged, and the order of two u32 is u32_gt.
read_u32(bytes, rpos) == read_i32(bytes, rpos)
\* a > b for a u32 a and a number b in 0 .. 2^31 - 1
u32_gt(a, b) == a < 0 \/ a > b

\* bytes from position from (0-based) to the end: to_bytes() then
\* retain(index >= trim_at)
bytes_from(bytes, from) ==
  IF from >= Len(bytes) THEN << >> ELSE SubSeq(bytes, from + 1, Len(bytes))

(***************************************************************************)
(* The codecs (the bzip2 and inflate crates).  Of raw deflate the model    *)
(* decodes stored blocks (BTYPE 00) and refuses the reserved block type;   *)
(* of bzip2 it decodes the empty stream.  The disk images hold no other    *)
(* well-formed stream, and anything else is a decoding error.  A result is *)
(* [ok, out]: out is what the decoder had written when it stopped.         *)
(***************************************************************************)
codec_result(ok, out) == [ok |-> ok, out |-> out]

\* a stored block followed by the blocks after it
stored_block_then(block, rest) ==
  codec_result(rest.ok, IF rest.ok THEN block \o rest.out ELSE << >>)

\* stream starts with a stored block of len bytes whose complement is nlen
RECURSIVE inflate_bytes(_)
RECURSIVE inflate_stored(_, _, _)
inflate_bytes(stream) ==
  IF Len(stream) < 5 \/ (stream[1] \div 2) % 4 # 0
    THEN codec_result(FALSE, << >>)
    ELSE inflate_stored(stream, stream[2] + stream[3] * Pow2_8,
                        stream[4] + stream[5] * Pow2_8)

inflate_stored(stream, len, nlen) ==
  IF len + nlen # Pow2_16 - 1 \/ Len(stream) < 5 + len
    THEN codec_result(FALSE, << >>)
  ELSE IF stream[1] % 2 = 1
    THEN codec_result(TRUE, SubSeq(stream, 6, 5 + len))
  ELSE stored_block_then(SubSeq(stream, 6, 5 + len),
                         inflate_bytes(bytes_from(stream, 5 + len)))

\* "BZh1", the stream header the cache format strips
BzHeader == << 66, 90, 104, 49 >>
\* the end-of-stream marker followed by the combined crc of no blocks
BzEmptyStream == << 23, 114, 69, 56, 80, 144, 0, 0, 0, 0 >>

bz_decode(stream) ==
  IF stream = BzHeader \o BzEmptyStream
    THEN codec_result(TRUE, << >>)
    ELSE codec_result(FALSE, << >>)

(***************************************************************************)
(* decompress_container_data.  The result is [tag, data] with tag "some",  *)
(* "none" or "panic" (a read past the end of the buffer, or assert_eq!).   *)
(***************************************************************************)
Some(d) == [tag |-> "some", data |-> d]
None == [tag |-> "none", data |-> << >>]
Panic == [tag |-> "panic", data |-> << >>]

\* lines 414-420
decompress_raw(packed_data, container_size) ==
  IF ~can_read(packed_data, 5, container_size)
    THEN Panic
    ELSE Some(SubSeq(packed_data, 6, 5 + container_size))

\* line 446; a decoding error of bzip2 is only printed
bzip2_checked(decompressed_size, r) ==
  IF decompressed_size # Len(r.out) THEN Panic ELSE Some(r.out)

\* lines 422-448: the four bytes of decompressed_size become the header
decompress_bzip2(packed_data) ==
  IF ~can_read(packed_data, 5, 4) THEN Panic
  ELSE bzip2_checked(read_u32(packed_data, 5),
                     bz_decode(BzHeader \o bytes_from(packed_data, (5 + 4 - 4) + 4)))

\* lines 462-471
deflate_checked(decompressed_size, r) ==
  IF ~r.ok THEN None
  ELSE IF decompressed_size # Len(r.out) THEN Panic
  ELSE Some(r.out)

\* lines 450-472
decompress_deflate(packed_data) ==
  IF ~can_read(packed_data, 5, 4) THEN Panic
  ELSE deflate_checked(read_u32(packed_data, 5),
                       inflate_bytes(bytes_from(packed_data, (5 + 4) + GzipHeaderSize)))

\* lines 409-473
decompress_as(packed_data, compression, container_size) ==
  IF u32_gt(container_size, MaxCompressedSize) THEN None
  ELSE IF compression = 0 THEN decompress_raw(packed_data, container_size)
  ELSE IF compression = 1 THEN decompress_bzip2(packed_data)
  ELSE decompress_deflate(packed_data)

decompress_container_data(packed_data) ==
  IF packed_data = << >> THEN Some(<< >>)
  ELSE IF ~can_read(packed_data, 1, 4) THEN Panic
  ELSE decompress_as(packed_data, read_u8(packed_data, 0), read_u32(packed_data, 1))

(***************************************************************************)
(* The directory of an index: IdxContainerInfo, IdxContainer,              *)
(* IdxFileContainer.  A HashMap is a function on the set of its keys.      *)
(***************************************************************************)
IdxFileContainer_new == [version |-> 0, name_hash |-> 0, crc |-> -1, data |-> << >>]

IdxContainer_new ==
  [version |-> -1, name_hash |-> 0, crc |-> -1,
   file_indices |-> << >>, file_containers |-> EmptyMap]

IdxContainerInfo_new ==
  [protocol |-> 0, revision |-> 0, container_indices |-> << >>,
   containers |-> EmptyMap, named_files |-> FALSE, whirlpool |-> FALSE]

\* The loops of IdxContainerInfo::from.  d is the decoder's state: the buffer
\* and its read position, container_indices, containers, file_hashes,
\* container_index_counts, and whether an unwrap or an index has panicked.
\* A read past the end of the buffer gives 0 here and leaves pos beyond the
\* end, which IdxContainerInfo_from turns into the panic.

\* lines 240-247
RECURSIVE from_indices(_, _, _)
from_indices(d, num_indices, i) ==
  IF i >= num_indices THEN d
  ELSE
    LET id == read_u16(d.bytes, d.pos)
                + (IF i = 0 THEN 0 ELSE d.container_indices[Len(d.container_indices)])
    IN  from_indices([d EXCEPT !.pos = @ + 2,
                               !.container_indices = Append(@, id),
                               !.containers = Put(@, id, IdxContainer_new)],
                     num_indices, i + 1)

\* lines 249-253
RECURSIVE from_name_hashes(_, _, _)
from_name_hashes(d, num_indices, i) ==
  IF i >= num_indices THEN d
  ELSE from_name_hashes(
         [d EXCEPT !.pos = @ + 4,
                   !.containers[d.container_indices[i + 1]].name_hash = read_u32(d.bytes, d.pos)],
         num_indices, i + 1)

\* lines 258-264; data.read(&mut buf) copies what is left of the buffer when
\* fewer than 64 bytes are, and every read after it then passes the end
RECURSIVE from_whirlpool(_, _, _)
from_whirlpool(d, num_indices, i) ==
  IF i >= num_indices THEN d
  ELSE from_whirlpool(
         [d EXCEPT !.pos = @ + WhirlpoolSize,
                   !.file_hashes = Put(@, d.container_indices[i + 1],
                                       [k \in 1..WhirlpoolSize |-> At(d.bytes, d.pos + k - 1)])],
         num_indices, i + 1)

\* lines 266-269
RECURSIVE from_crcs(_, _, _)
from_crcs(d, num_indices, i) ==
  IF i >= num_indices THEN d
  ELSE from_crcs(
         [d EXCEPT !.pos = @ + 4,
                   !.containers[d.container_indices[i + 1]].crc = read_i32(d.bytes, d.pos)],
         num_indices, i + 1)

\* lines 271-274
RECURSIVE from_versions(_, _, _)
from_versions(d, num_indices, i) ==
  IF i >= num_indices THEN d
  ELSE from_versions(
         [d EXCEPT !.pos = @ + 4,
                   !.containers[d.container_indices[i + 1]].version = read_i32(d.bytes, d.pos)],
         num_indices, i + 1)

\* lines 276-280
RECURSIVE from_counts(_, _, _)
from_counts(d, num_indices, i) ==
  IF i >= num_indices THEN d
  ELSE from_counts(
         [d EXCEPT !.pos = @ + 2,
                   !.container_index_counts =
                      Put(@, d.container_indices[i + 1], read_u16(d.bytes, d.pos))],
         num_indices, i + 1)

\* lines 285-292: the files of the archive with id cid
RECURSIVE from_files_of(_, _, _, _)
from_files_of(d, cid, count, f) ==
  IF f >= count \/ d.panicked THEN d
  ELSE
    LET c == d.containers[cid]
    IN  IF f > 0 /\ f - 1 >= Len(c.file_indices) THEN [d EXCEPT !.panicked = TRUE]
        ELSE
          LET pushed == Append(c.file_indices,
                          read_u16(d.bytes, d.pos)
                            + (IF f = 0 THEN 0 ELSE c.file_indices[f]))
          IN  from_files_of(
                [d EXCEPT !.pos = @ + 2,
                          !.containers[cid].file_indices = pushed,
                          !.containers[cid].file_containers =
                             Put(@, pushed[f + 1], IdxFileContainer_new)],
                cid, count, f + 1)

\* lines 282-293
RECURSIVE from_files(_, _, _)
from_files(d, num_indices, i) ==
  IF i >= num_indices \/ d.panicked THEN d
  ELSE
    LET cid == d.container_indices[i + 1]
    IN  from_files(from_files_of(d, cid, d.container_index_counts[cid], 0),
                   num_indices, i + 1)

\* lines 298-305: the files of the archive at position container_index
RECURSIVE from_file_versions_of(_, _, _, _)
from_file_versions_of(d, container_index, n, file_index) ==
  IF file_index >= n \/ d.panicked THEN d
  ELSE
    LET container_id == d.container_indices[container_index + 1]
        c == d.containers[container_id]
    IN  IF file_index >= Len(c.file_indices)
          THEN [d EXCEPT !.panicked = TRUE]
        ELSE
          LET file_id == c.file_indices[file_index + 1]
          IN  IF file_id >= WhirlpoolSize THEN [d EXCEPT !.panicked = TRUE]
              ELSE from_file_versions_of(
                     [d EXCEPT !.containers[container_id].file_containers[file_id].version =
                                  d.file_hashes[container_id][file_id + 1]],
                     container_index, n, file_index + 1)

\* lines 296-307
RECURSIVE from_file_versions(_, _)
from_file_versions(d, container_index) ==
  IF container_index >= Len(d.container_indices) \/ d.panicked THEN d
  ELSE IF container_index \notin DOMAIN d.containers
    THEN [d EXCEPT !.panicked = TRUE]
  ELSE from_file_versions(
         from_file_versions_of(d, container_index,
            Cardinality(DOMAIN d.containers[container_index].file_containers), 0),
         container_index + 1)

\* lines 313-316: the files of the archive with id cid
RECURSIVE from_file_names_of(_, _, _)
from_file_names_of(d, cid, f) ==
  IF f >= Len(d.containers[cid].file_indices) THEN d
  ELSE from_file_names_of(
         [d EXCEPT !.pos = @ + 4,
                   !.containers[cid].file_containers[d.containers[cid].file_indices[f + 1]].name_hash =
                      read_u32(d.bytes, d.pos)],
         cid, f + 1)

\* lines 309-318
RECURSIVE from_file_names(_, _, _)
from_file_names(d, num_indices, i) ==
  IF i >= num_indices THEN d
  ELSE from_file_names(from_file_names_of(d, d.container_indices[i + 1], 0),
                       num_indices, i + 1)

\* the optional loops
from_name_hashes_if(files_named, d, num_indices) ==
  IF files_named THEN from_name_hashes(d, num_indices, 0) ELSE d

from_whirlpool_if(whirlpool, d, num_indices) ==
  IF whirlpool THEN from_whirlpool(d, num_indices, 0) ELSE d

from_file_versions_if(whirlpool, d) ==
  IF whirlpool THEN from_file_versions(d, 0) ELSE d

from_file_names_if(files_named, d, num_indices) ==
  IF files_named /\ ~d.panicked THEN from_file_names(d, num_indices, 0) ELSE d

\* lines 240-318, in the order of the source
from_loops(d, num_indices, files_named, whirlpool) ==
  from_file_names_if(files_named,
    from_file_versions_if(whirlpool,
      from_files(
        from_counts(
          from_versions(
            from_crcs(
              from_whirlpool_if(whirlpool,
                from_name_hashes_if(files_named,
                  from_indices(d, num_indices, 0),
                  num_indices),
                num_indices),
              num_indices, 0),
            num_indices, 0),
          num_indices, 0),
        num_indices, 0)),
    num_indices)

from_result(tag, info) == [tag |-> tag, info |-> info]

\* lines 321-328, or the panic of a read past the end, an unwrap of None or
\* an index out of range on the way
from_decoded(d, protocol, revision, files_named, whirlpool) ==
  IF d.panicked \/ d.pos > Len(d.bytes)
    THEN from_result("panic", IdxContainerInfo_new)
    ELSE from_result("ok",
           [protocol |-> protocol, revision |-> revision,
            container_indices |-> d.container_indices,
            containers |-> d.containers,
            named_files |-> files_named, whirlpool |-> whirlpool])

\* lines 232-238: the settings byte and the number of archives, at pos
from_settings(bytes, protocol, revision, settings_hash, num_indices, pos) ==
  from_decoded(
    from_loops([bytes |-> bytes, pos |-> pos, container_indices |-> << >>,
                containers |-> EmptyMap, file_hashes |-> EmptyMap,
                container_index_counts |-> EmptyMap, panicked |-> FALSE],
               num_indices, settings_hash % 2 # 0, (settings_hash \div 2) % 2 # 0),
    protocol, revision, settings_hash % 2 # 0, (settings_hash \div 2) % 2 # 0)

\* lines 221-230
from_protocol(bytes, protocol) ==
  IF protocol # 5 /\ protocol # 6 THEN from_result("ok", IdxContainerInfo_new)
  ELSE IF protocol = 5
    THEN from_settings(bytes, protocol, 0, read_u8(bytes, 1), read_u16(bytes, 2), 4)
    ELSE from_settings(bytes, protocol, read_u32(bytes, 1), read_u8(bytes, 5),
                       read_u16(bytes, 6), 8)

\* lines 213-221
from_unpacked(unpacked) ==
  IF unpacked.tag = "panic" THEN from_result("panic", IdxContainerInfo_new)
  ELSE IF unpacked.tag = "none" THEN from_result("ok", IdxContainerInfo_new)
  ELSE IF ~can_read(unpacked.data, 0, 1) THEN from_result("panic", IdxContainerInfo_new)
  ELSE from_protocol(unpacked.data, read_u8(unpacked.data, 0))

\* IdxContainerInfo::from(packed_data): [tag, info], tag "ok" or "panic"
IdxContainerInfo_from(packed_data) == from_unpacked(decompress_container_data(packed_data))

(***************************************************************************)
(* get_name_hash.  A u32 is kept as << high 16 bits, low 16 bits >>.  The  *)
(* result is [hash, overflow]: overflow says that the subtraction or the   *)
(* addition left the u32 range, which aborts a build with overflow checks  *)
(* and wraps in a build without them.                                      *)
(***************************************************************************)
to_lowercase(b) == IF b >= 65 /\ b <= 90 THEN b + 32 ELSE b

hash_step(h, char) ==
  LET lo5 == h.hash[2] * 32
      hi5 == h.hash[1] * 32 + lo5 \div Pow2_16
      shl == << hi5 % Pow2_16, lo5 % Pow2_16 >>
      lo_d == shl[2] - h.hash[2]
      hi_d == shl[1] - h.hash[1] - (IF lo_d < 0 THEN 1 ELSE 0)
      lo_s == (lo_d % Pow2_16) + char
      hi_s == (hi_d % Pow2_16) + lo_s \div Pow2_16
  IN  [hash |-> << hi_s % Pow2_16, lo_s % Pow2_16 >>,
       overflow |-> h.overflow \/ hi_d < 0 \/ hi_s >= Pow2_16]

RECURSIVE hash_fold(_, _)
hash_fold(h, bytes) ==
  IF bytes = << >> THEN h
  ELSE hash_fold(hash_step(h, to_lowercase(Head(bytes))), Tail(bytes))

get_name_hash(name) == hash_fold([hash |-> << 0, 0 >>, overflow |-> FALSE], name)

\* a u32 held as two halves, as the i32 with the same bits
U32(h) == (IF h[1] >= Pow2_16 \div 2 THEN h[1] - Pow2_16 ELSE h[1]) * Pow2_16 + h[2]

(***************************************************************************)
(* Disk images.  A disk is [idx, dat, has_dat]: idx maps the number i of   *)
(* every main_file_cache.idx{i} that exists to its bytes; dat is           *)
(* main_file_cache.dat2 as a sequence of sectors (sector 0 first), each    *)
(* the sector's bytes up to its last byte that may be non-zero.            *)
(***************************************************************************)
sector_bytes(container_id, part, next_sector, idx_file_id, payload) ==
  BE16(container_id) \o BE16(part) \o BE24(next_sector) \o << idx_file_id >> \o payload

sector_record(size, first_sector) == BE24(size) \o BE24(first_sector)

raw_container(body) == << 0 >> \o BE32(Len(body)) \o body

GzipHeader == << 31, 139, 8, 0, 0, 0, 0, 0, 0, 3 >>

\* one final stored deflate block behind a gzip header
deflate_container(body) ==
  << 2 >> \o BE32(GzipHeaderSize + 5 + Len(body)) \o BE32(Len(body)) \o GzipHeader
    \o << 1, Len(body) % Pow2_8, Len(body) \div Pow2_8,
          (Pow2_16 - 1 - Len(body)) % Pow2_8, (Pow2_16 - 1 - Len(body)) \div Pow2_8 >>
    \o body

Logo == << 108, 111, 103, 111 >>

\* index 0: protocol 5, archive 0 with file 0
Dir0 ==
  raw_container(<< 5, 0 >> \o BE16(1) \o BE16(0) \o BE32(11) \o BE32(1)
                  \o BE16(1) \o BE16(0))

\* index 1: protocol 6, named; archive 1 ("logo") with file 0, archive 3 with
\* files 0 and 1
Dir1 ==
  raw_container(<< 6 >> \o BE32(7) \o << 1 >> \o BE16(2) \o BE16(1) \o BE16(2)
                  \o BE32(U32(get_name_hash(Logo).hash)) \o BE32(99)
                  \o BE32(21) \o BE32(-5) \o BE32(3) \o BE32(4)
                  \o BE16(1) \o BE16(2)
                  \o BE16(0) \o BE16(0) \o BE16(1)
                  \o BE32(70) \o BE32(71) \o BE32(72))

\* index 2: protocol 5; archive 0 with file 0, archive 1 with files 0, 1, 2
Dir2 ==
  raw_container(<< 5, 0 >> \o BE16(2) \o BE16(0) \o BE16(1)
                  \o BE32(31) \o BE32(32) \o BE32(5) \o BE32(6)
                  \o BE16(1) \o BE16(3)
                  \o BE16(0) \o BE16(0) \o BE16(1) \o BE16(1))

\* the 64 bytes of an archive in a directory with the whirlpool flag
Whirlpool(first) == [k \in 1..WhirlpoolSize |-> first + k - 1]

\* a directory of protocol 5 with the whirlpool flag: two archives, the first
\* with id first_id and file 0, the second with the next id and files 0 and 1
WhirlpoolDir(first_id) ==
  raw_container(<< 5, 2 >> \o BE16(2) \o BE16(first_id) \o BE16(1)
                  \o Whirlpool(100) \o Whirlpool(40)
                  \o BE32(51) \o BE32(52) \o BE32(8) \o BE32(9)
                  \o BE16(1) \o BE16(2)
                  \o BE16(0) \o BE16(0) \o BE16(1))

Arch00 == raw_container(<< 9, 9 >>)

Arch11 == deflate_container(<< 76, 79, 71, 0 >>)

\* two files in one chunk: file 0 is empty, file 1 is << 1, 2, 3 >>
Arch13 == raw_container(<< 1, 2, 3 >> \o BE32(0) \o BE32(3) \o << 1 >>)

\* one file of 508 bytes, zero but for its first three and its last two: the
\* container is 513 bytes, two sectors
Arch20 ==
  raw_container([k \in 1..508 |-> IF k <= 3 THEN k + 100 ELSE IF k = 507 THEN 33
                                   ELSE IF k = 508 THEN 2 ELSE 0])

\* a sector as it is kept in a disk image: without its trailing zeros
RECURSIVE stored(_)
stored(bytes) ==
  IF bytes # << >> /\ bytes[Len(bytes)] = 0 /\ Len(bytes) > SectorHeader
    THEN stored(SubSeq(bytes, 1, Len(bytes) - 1))
    ELSE bytes

\* three files in two chunks: << 10, 30 >>, << 20, 21 >>, << 40 >>
Arch21 ==
  raw_container(<< 10, 20, 21, 30, 40 >>
                  \o BE32(1) \o BE32(1) \o BE32(-2)
                  \o BE32(1) \o BE32(-1) \o BE32(1) \o << 2 >>)

BaseDisk ==
  [idx |-> (0 :> sector_record(Len(Arch00), 4))
       @@ (1 :> (sector_record(0, 0) \o sector_record(Len(Arch11), 5)
                   \o sector_record(0, 0) \o sector_record(Len(Arch13), 6)))
       @@ (2 :> (sector_record(Len(Arch20), 7) \o sector_record(Len(Arch21), 9)))
       @@ (InfoIndexId :> (sector_record(Len(Dir0), 1) \o sector_record(Len(Dir1), 2)
                             \o sector_record(Len(Dir2), 3) \o sector_record(0, 0))),
   dat |-> << << >>,
              sector_bytes(0, 0, 0, InfoIndexId, Dir0),
              sector_bytes(1, 0, 0, InfoIndexId, Dir1),
              sector_bytes(2, 0, 0, InfoIndexId, Dir2),
              sector_bytes(0, 0, 0, 0, Arch00),
              sector_bytes(1, 0, 0, 1, Arch11),
              sector_bytes(3, 0, 0, 1, Arch13),
              stored(sector_bytes(0, 0, 8, 2, SubSeq(Arch20, 1, SectorPayload))),
              sector_bytes(0, 1, 0, 2, SubSeq(Arch20, SectorPayload + 1, Len(Arch20))),
              sector_bytes(1, 0, 0, 2, Arch21) >>,
   has_dat |-> TRUE]

\* A fault changes one byte of a file, removes a file (a = 256: dat2), adds
\* the idx file a with the bytes v, or adds the bytes v to dat2 as a sector.
Poke(t, a, off, v) == [t |-> t, a |-> a, off |-> off, v |-> v]

apply_poke(disk, p) ==
  IF p.t = "idx" THEN [disk EXCEPT !.idx[p.a][p.off + 1] = p.v]
  ELSE IF p.t = "dat" THEN [disk EXCEPT !.dat[p.a + 1][p.off + 1] = p.v]
  ELSE IF p.t = "new" THEN [disk EXCEPT !.idx = Put(@, p.a, p.v)]
  ELSE IF p.t = "sec" THEN [disk EXCEPT !.dat = Append(@, p.v)]
  ELSE IF p.a = 256 THEN [disk EXCEPT !.has_dat = FALSE]
  ELSE [disk EXCEPT !.idx = [i \in (DOMAIN disk.idx) \ {p.a} |-> disk.idx[i]]]

RECURSIVE apply_pokes(_, _)
apply_pokes(disk, ps) ==
  IF ps = << >> THEN disk ELSE apply_pokes(apply_poke(disk, Head(ps)), Tail(ps))

\* offset in a sector of byte k of the container the sector carries
InPayload(k) == SectorHeader + k

WithIndex3(dir) ==
  << Poke("new", 3, 0, sector_record(0, 0)),
     Poke("idx", InfoIndexId, 20, Len(dir)), Poke("idx", InfoIndexId, 23, 10),
     Poke("sec", 10, 0, sector_bytes(3, 0, 0, InfoIndexId, dir)) >>

Faults ==
  << << >>,
     \* the chain of archive 0 of index 2 (sectors 7 and 8)
     << Poke("dat", 7, 6, 0) >>,                         \* next_sector 0 after 512 of 513 bytes
     << Poke("dat", 7, 6, 7) >>,                         \* next_sector points at the sector itself
     << Poke("dat", 7, 6, 50) >>,                        \* next_sector past the end of dat2
     << Poke("dat", 8, 3, 0) >>,                         \* part 0 in the second sector
     << Poke("dat", 8, 1, 1) >>,                         \* container id 1 in the second sector
     << Poke("dat", 8, 7, 1) >>,                         \* idx file id 1 in the second sector
     << Poke("dat", 7, 0, 1) >>,                         \* container id 256 in the first sector
     << Poke("idx", 2, 1, 2), Poke("idx", 2, 2, 0) >>,   \* size 512
     << Poke("idx", 2, 1, 4), Poke("idx", 2, 2, 0) >>,   \* size 1024
     << Poke("idx", 2, 1, 4), Poke("idx", 2, 2, 1) >>,   \* size 1025
     << Poke("idx", 2, 1, 0), Poke("idx", 2, 2, 0) >>,   \* size 0
     << Poke("idx", 2, 5, 0) >>,                         \* first sector 0
     << Poke("idx", 2, 0, 16) >>,                        \* size over 1000000
     \* the directory of index 1 (slot 1 of idx255, sector 2)
     << Poke("idx", InfoIndexId, 11, 0) >>,              \* first sector 0
     << Poke("idx", InfoIndexId, 8, 0) >>,               \* size 0
     << Poke("idx", InfoIndexId, 6, 8) >>,               \* size over 500000
     << Poke("dat", 2, 7, 1) >>,                         \* idx file id 1 in the sector
     << Poke("dat", 2, InPayload(5), 7) >>,              \* protocol 7
     << Poke("dat", 2, InPayload(0), 2), Poke("dat", 2, InPayload(19), 7) >>,  \* deflate, reserved block type
     << Poke("dat", 2, InPayload(0), 1) >>,              \* bzip2, no stream
     << Poke("dat", 2, InPayload(1), 127) >>,            \* compressed size over 5000000
     << Poke("dat", 2, InPayload(12), 3) >>,              \* three archives announced, two present
     \* the archives of index 1 (sectors 5 and 6)
     << Poke("dat", 5, InPayload(8), 5) >>,              \* decompressed size 5, 4 bytes stored
     << Poke("dat", 5, InPayload(19), 7) >>,             \* reserved deflate block type
     << Poke("dat", 5, InPayload(27), 71) >>,            \* last byte 71 in the single file's 4 bytes
     << Poke("dat", 6, 7, 2) >>,                         \* idx file id 2 in the sector
     << Poke("dat", 6, InPayload(16), 9) >>,             \* 9 chunks announced in 12 bytes
     << Poke("dat", 6, InPayload(15), 4) >>,             \* file 1 of 4 bytes, 3 present
     \* files that do not exist
     << Poke("rm", 0, 0, 0) >>,
     << Poke("rm", 1, 0, 0) >>,
     << Poke("rm", InfoIndexId, 0, 0) >>,
     << Poke("rm", 256, 0, 0) >>,
     \* ids that repeat in the directory of index 1
     << Poke("dat", 2, InPayload(50), 0) >>,             \* archive 3: file id deltas 0, 0
     << Poke("dat", 2, InPayload(16), 0) >>,             \* archive id deltas 1, 0
     \* an index 3 whose directory (slot 3 of idx255, sector 10) has the
     \* whirlpool flag
     WithIndex3(WhirlpoolDir(0)),                        \* archives 0 and 1
     WithIndex3(WhirlpoolDir(1)) >>                      \* archives 1 and 2

(***************************************************************************)
(* Cache::from_path and Cache::index.                                      *)
(***************************************************************************)
CacheIndex_from(file_id, max_size, container_info) ==
  [file_id |-> file_id, max_container_size |-> max_size, container_info |-> container_info]

\* the first index the loop of from_path visits
first_index_opened == 1

\* lines 63-69: the bytes handed to IdxContainerInfo::from
directory_payload(walk) == IF walk.ok THEN walk.data ELSE << >>

\* lines 71-74: c after index i, whose directory was read by walk and decoded
\* as container_info
from_path_insert(c, i, walk, container_info) ==
  [indices |-> IF container_info.tag = "panic" THEN c.indices
               ELSE Put(c.indices, i % Pow2_8,
                        CacheIndex_from(i % Pow2_8, IndexMaxContainerSize,
                                        container_info.info)),
   walks |-> Append(c.walks, walk),
   panicked |-> container_info.tag = "panic"]

from_path_step(c, i, walk) ==
  from_path_insert(c, i, walk, IdxContainerInfo_from(directory_payload(walk)))

\* the loop of lines 50-75; c is [indices, walks, panicked]
RECURSIVE from_path_loop(_, _, _, _)
from_path_loop(disk_, num_files, i, c) ==
  IF i >= num_files \/ c.panicked THEN c
  ELSE IF i \notin DOMAIN disk_.idx THEN from_path_loop(disk_, num_files, i + 1, c)
  ELSE from_path_loop(disk_, num_files, i + 1,
         from_path_step(c, i,
           container_data(InfoIndexId, InfoMaxContainerSize,
                          disk_.idx[InfoIndexId], disk_.dat, i)))

\* lines 77-80
from_path_result(c) ==
  [tag |-> IF c.panicked THEN "panic" ELSE "some",
   indices |-> IF c.panicked THEN EmptyMap ELSE c.indices,
   walks |-> c.walks]

\* [tag, indices, walks]: tag "some", "none" (a file could not be opened) or
\* "panic"
from_path(disk_) ==
  IF InfoIndexId \notin DOMAIN disk_.idx \/ ~disk_.has_dat
    THEN [tag |-> "none", indices |-> EmptyMap, walks |-> << >>]
    ELSE from_path_result(
           from_path_loop(disk_, Len(disk_.idx[InfoIndexId]) \div IdxRecordSize,
                          first_index_opened,
                          [indices |-> EmptyMap, walks |-> << >>, panicked |-> FALSE]))

\* Cache::index(idx): the key looked up is idx as u8
index_key(idx) == idx % Pow2_8

(***************************************************************************)
(* FileProvider::load_requested_container_files and the functions it       *)
(* calls.  checks says whether the build aborts on integer overflow (a     *)
(* build with overflow checks) or wraps (a build without them).            *)
(***************************************************************************)
I32Max == Pow2_16 * (Pow2_16 \div 2 - 1) + (Pow2_16 - 1)
I32Min == -I32Max - 1

add_overflows(a, b) == (b > 0 /\ a > I32Max - b) \/ (b < 0 /\ a < I32Min - b)

\* a + b in 32 bits, two's complement
wrapping_add(a, b) ==
  IF ~add_overflows(a, b) THEN a + b
  ELSE IF b > 0 THEN (a + I32Min) + (b + I32Min)
  ELSE (a - I32Min) + (b - I32Min)

\* lines 336-342: what becomes of the walk's result
requested_data(walk, unpacked) ==
  [walk |-> walk,
   unpacked |-> unpacked.tag,
   tag |-> IF unpacked.tag = "panic" THEN "panic" ELSE "some",
   data |-> IF unpacked.tag = "some" THEN unpacked.data ELSE << >>]

unpack_walk(walk) ==
  requested_data(walk, IF walk.ok THEN decompress_container_data(walk.data) ELSE None)

\* get_requested_container_data, given that the index exists: the walk, and
\* [tag, data] with tag "some" (the Vec returned, empty after a failed read
\* or a codec error) or "panic"
get_requested_container_data(ci, disk_, archive) ==
  unpack_walk(container_data(ci.file_id, ci.max_container_size,
                             disk_.idx[ci.file_id], disk_.dat, archive))

get_container_file_info(ci, archive) ==
  IF archive \in DOMAIN ci.container_info.containers
    THEN ci.container_info.containers[archive].file_indices
    ELSE << >>

\* the first pass after one more entry: offset is the row's running sum
sizes_advance(t, file_index, offset, checks) ==
  IF Len(t.file_sizes) = file_index
    THEN [pos |-> t.pos + 4, offset |-> offset,
          file_sizes |-> Append(t.file_sizes, offset),
          panicked |-> FALSE, overflow |-> FALSE]
  ELSE IF checks /\ add_overflows(t.file_sizes[file_index + 1], offset)
    THEN [t EXCEPT !.panicked = TRUE, !.overflow = TRUE]
  ELSE [pos |-> t.pos + 4, offset |-> offset,
        file_sizes |-> [t.file_sizes EXCEPT ![file_index + 1] = wrapping_add(@, offset)],
        panicked |-> FALSE, overflow |-> FALSE]

sizes_entry(t, file_index, offset0, delta, checks) ==
  IF checks /\ add_overflows(offset0, delta)
    THEN [t EXCEPT !.panicked = TRUE, !.overflow = TRUE]
    ELSE sizes_advance(t, file_index, wrapping_add(offset0, delta), checks)

\* lines 289-300: the first pass over the stride table, which only sums.
\* t is [pos, offset, file_sizes, panicked, overflow]; k counts the entries
\* read, overflow says that the panic is an overflow check.
RECURSIVE file_sizes_pass(_, _, _, _, _, _)
file_sizes_pass(container_data_, n, total, checks, t, k) ==
  IF k >= total \/ t.panicked THEN t
  ELSE IF ~can_read(container_data_, t.pos, 4) THEN [t EXCEPT !.panicked = TRUE]
  ELSE file_sizes_pass(container_data_, n, total, checks,
         sizes_entry(t, k % n, IF k % n = 0 THEN 0 ELSE t.offset,
                     read_i32(container_data_, t.pos), checks),
         k + 1)

\* the slice container_data[offset as usize .. (offset + data_read) as usize]
\* exists
slice_ok(container_data_, offset, end) ==
  offset >= 0 /\ end >= 0 /\ offset <= end /\ end <= Len(container_data_)

\* split_append without the advance of offset
split_append_at_start(container_data_, t, file_id, data_read, checks) ==
  IF file_id \notin DOMAIN t.files
    THEN [t EXCEPT !.pos = @ + 4, !.data_read = data_read]
  ELSE IF ~slice_ok(container_data_, 0, data_read)
    THEN [t EXCEPT !.panicked = TRUE]
  ELSE [pos |-> t.pos + 4, offset |-> 0, data_read |-> data_read,
        files |-> [t.files EXCEPT ![file_id].data = @ \o SubSeq(container_data_, 1, data_read)],
        panicked |-> FALSE, overflow |-> FALSE]

\* lines 310-320: the segment of data_read bytes at t.offset goes to file_id
split_append(container_data_, t, file_id, data_read, checks) ==
  IF file_id \notin DOMAIN t.files
    THEN [t EXCEPT !.pos = @ + 4, !.data_read = data_read]
  ELSE IF checks /\ add_overflows(t.offset, data_read)
    THEN [t EXCEPT !.panicked = TRUE, !.overflow = TRUE]
  ELSE IF ~slice_ok(container_data_, t.offset, wrapping_add(t.offset, data_read))
    THEN [t EXCEPT !.panicked = TRUE]
  ELSE [pos |-> t.pos + 4, offset |-> t.offset + data_read, data_read |-> data_read,
        files |-> [t.files EXCEPT ![file_id].data =
                     @ \o SubSeq(container_data_, t.offset + 1, t.offset + data_read)],
        panicked |-> FALSE, overflow |-> FALSE]

\* line 308
split_entry(container_data_, t, file_id, data_read0, delta, checks) ==
  IF checks /\ add_overflows(data_read0, delta)
    THEN [t EXCEPT !.panicked = TRUE, !.overflow = TRUE]
    ELSE split_append(container_data_, t, file_id, wrapping_add(data_read0, delta), checks)

\* lines 304-322: the second pass, which appends to the files' data.
\* t is [pos, offset, data_read, files, panicked, overflow]; files is the
\* archive's file_containers.
RECURSIVE split_pass(_, _, _, _, _, _)
split_pass(container_data_, file_info, total, checks, t, k) ==
  IF k >= total \/ t.panicked THEN t
  ELSE IF ~can_read(container_data_, t.pos, 4) THEN [t EXCEPT !.panicked = TRUE]
  ELSE split_pass(container_data_, file_info, total, checks,
         split_entry(container_data_, t, file_info[(k % Len(file_info)) + 1],
                     IF k % Len(file_info) = 0 THEN 0 ELSE t.data_read,
                     read_i32(container_data_, t.pos), checks),
         k + 1)

\* the result of load_requested_container_files: tag "ok" or "panic", files
\* the file_containers afterwards, locked whether the panic came while the
\* cache lock was held, overflow whether the panic is an overflow check
\* (which a build without overflow checks does not make)
load_result(tag, files, locked, overflow) ==
  [tag |-> tag, files |-> files, locked |-> locked, overflow |-> overflow]

\* the single file's slot replaced by a new one holding the data
load_single_new_slot(container_data_, file_id, files) ==
  load_result("ok",
              IF file_id \in DOMAIN files
                THEN [files EXCEPT ![file_id] = [IdxFileContainer_new EXCEPT !.data = container_data_]]
                ELSE files,
              FALSE, FALSE)

\* lines 283-287
load_single(container_data_, file_id, files) ==
  load_result("ok",
              IF file_id \in DOMAIN files
                THEN [files EXCEPT ![file_id].data = container_data_]
                ELSE files,
              FALSE, FALSE)

\* lines 289-323, given both passes
load_split(files, sizes, split) ==
  IF sizes.panicked THEN load_result("panic", files, TRUE, sizes.overflow)
  ELSE IF split.panicked THEN load_result("panic", split.files, TRUE, split.overflow)
  ELSE load_result("ok", split.files, FALSE, FALSE)

load_passes(container_data_, file_info, files, checks, total, read_pos) ==
  load_split(files,
    file_sizes_pass(container_data_, Len(file_info), total, checks,
      [pos |-> read_pos, offset |-> 0, file_sizes |-> << >>,
       panicked |-> FALSE, overflow |-> FALSE], 0),
    split_pass(container_data_, file_info, total, checks,
      [pos |-> read_pos, offset |-> 0, data_read |-> 0,
       files |-> files, panicked |-> FALSE, overflow |-> FALSE], 0))

\* lines 263-323: num_loops is the last byte of the data
load_with(container_data_, file_info, files, checks, num_loops) ==
  IF (Len(container_data_) - 1) - num_loops * (Len(file_info) * 4) < 0 /\ checks
    THEN load_result("panic", files, FALSE, TRUE)
  ELSE IF Len(file_info) = 1
    THEN load_single(container_data_, file_info[1], files)
  \* read_pos has wrapped to a position past the end of the buffer
  ELSE IF (Len(container_data_) - 1) - num_loops * (Len(file_info) * 4) < 0
    THEN load_result("panic", files, TRUE, FALSE)
  ELSE IF Len(file_info) = 0
    THEN load_result("ok", files, FALSE, FALSE)
  ELSE load_passes(container_data_, file_info, files, checks,
                   num_loops * Len(file_info),
                   (Len(container_data_) - 1) - num_loops * (Len(file_info) * 4))

\* load_requested_container_files on the archive's file_containers, given
\* the data and the file ids that lines 257-258 fetch
load_requested_container_files(container_data_, file_info, files, checks) ==
  IF Len(container_data_) = 0
    THEN load_result("panic", files, FALSE, FALSE)
    ELSE load_with(container_data_, file_info, files, checks,
                   container_data_[Len(container_data_)])

(***************************************************************************)
(* FileProvider::request.  The result is what the call returns and what it *)
(* leaves behind: outcome "returned" or "panic", the DataBuffer returned,  *)
(* the cache's indices and whether its lock is poisoned afterwards, and,   *)
(* for the properties, the walks made, the number of reads of the idx and  *)
(* data files, and how the read and the codec ended.  overflow says that   *)
(* the panic is an overflow check.                                         *)
(***************************************************************************)
stored_data(files, file_id) ==
  IF file_id \in DOMAIN files THEN files[file_id].data ELSE << >>

\* the test of line 228: the stored data is returned without loading
is_materialized(file_data) == Len(file_data) # 0

request_result(outcome, data, indices_, poisoned_, walks_, io, loaded, chain, codec, overflow) ==
  [outcome |-> outcome, data |-> data, indices |-> indices_, poisoned |-> poisoned_,
   walks |-> walks_, io |-> io, loaded |-> loaded, chain |-> chain, codec |-> codec,
   overflow |-> overflow]

\* a call that reads no file
request_quiet(outcome, data, indices_, poisoned_) ==
  request_result(outcome, data, indices_, poisoned_, << >>, 0, FALSE, "none", "none", FALSE)

\* lines 231-253: after load_requested_container_files, which read g and
\* ended as l
request_loaded(indices_, key, archive, file_id, g, l) ==
  request_result(
    IF g.tag = "panic" \/ l.tag = "panic" THEN "panic" ELSE "returned",
    IF g.tag = "panic" \/ l.tag = "panic" THEN << >> ELSE stored_data(l.files, file_id),
    IF g.tag = "panic" THEN indices_
    ELSE [indices_ EXCEPT
            ![key].container_info.containers[archive].file_containers = l.files],
    IF g.tag = "panic" THEN TRUE ELSE l.tag = "panic" /\ l.locked,
    << g.walk >>, 1 + Len(g.walk.visited), TRUE,
    IF g.walk.ok THEN "ok" ELSE g.walk.err, g.unpacked,
    g.tag # "panic" /\ l.tag = "panic" /\ l.overflow)

request_load_with(indices_, key, archive, file_id, files, file_info, checks, g) ==
  request_loaded(indices_, key, archive, file_id, g,
                 load_requested_container_files(g.data, file_info, files, checks))

request_load(indices_, key, archive, disk_, file_id, checks) ==
  request_load_with(indices_, key, archive, file_id,
    indices_[key].container_info.containers[archive].file_containers,
    get_container_file_info(indices_[key], archive), checks,
    get_requested_container_data(indices_[key], disk_, archive))

\* lines 207-230, given the archive's files
request_in(indices_, key, archive, disk_, file_id, checks, files) ==
  IF is_materialized(stored_data(files, file_id))
    THEN request_quiet("returned", stored_data(files, file_id), indices_, FALSE)
    ELSE request_load(indices_, key, archive, disk_, file_id, checks)

request(indices_, poisoned_, prov, disk_, file_id, checks) ==
  IF poisoned_ THEN request_quiet("panic", << >>, indices_, TRUE)
  ELSE IF index_key(prov.index) \notin DOMAIN indices_
    THEN request_quiet("panic", << >>, indices_, TRUE)
  ELSE IF prov.archive \notin DOMAIN indices_[index_key(prov.index)].container_info.containers
    THEN request_quiet("returned", << >>, indices_, FALSE)
  ELSE request_in(indices_, index_key(prov.index), prov.archive, disk_, file_id, checks,
         indices_[index_key(prov.index)].container_info.containers[prov.archive].file_containers)

(***************************************************************************)
(* The state machine: one disk, one Cache behind its lock, one             *)
(* FileProvider.                                                           *)
(***************************************************************************)
\* the disk images of the model: the base image under each fault
Disks == [k \in 1..Len(Faults) |-> apply_pokes(BaseDisk, Faults[k])]

VARIABLES
  image,     \* the files of the cache directory: the number of a disk image
  opened,    \* "no" before Cache::from_path, then "some", "none" or "panic"
  indices,   \* Cache.indices: u8 -> CacheIndex
  poisoned,  \* the lock around the Cache is poisoned
  provider,  \* the FileProvider: [made, index, archive]
  ret,       \* the last call: what was called and what it returned
  walks,     \* the calls of container_data the last call made
  nload,     \* calls of load_requested_container_files so far
  defs,      \* the DefProvider: [made, index, def_cache], and what its last
             \* get_def was asked and whether it made a FileProvider
  threads,   \* threads that share the cache, each with a FileProvider of its
             \* own: where the thread is in its request, and its locals
  clock,     \* the thread that holds the lock around the Cache, or 0
  cursor     \* the position of the data file, which the cloned handles
             \* share: [pos, by], a sector and the thread that moved it last

vars == << image, opened, indices, poisoned, provider, ret, walks, nload, defs,
           threads, clock, cursor >>

\* the variables of the threads
conc == << threads, clock, cursor >>

\* the variables of the calls made one after another
seq == << provider, ret, walks, nload, defs >>

\* the files of the cache directory; nothing writes them
disk == Disks[image]

Indices == {0, 1, 2}
ArchiveIds == {0, 1, 3}
\* "Huffman": its hash leaves the u32 range on the way
Huffman == << 72, 117, 102, 102, 109, 97, 110 >>
Names == {Logo, Huffman}
FileIds == {0, 1}

NoCall == [op |-> "none", outcome |-> "none", data |-> << >>, file |-> 0, by_name |-> << >>,
           io |-> 0, loaded |-> FALSE, chain |-> "none", codec |-> "none"]

Threads == {1, 2}

NoWalk == [sector |-> 0, part |-> 0, data_read_count |-> 0,
           container_data |-> << >>, visited |-> << >>]

NoThread == [pc |-> "none", archive |-> 0, file |-> 0, requests |-> 0,
             size |-> 0, w |-> NoWalk, file_buff |-> << >>,
             walk |-> walk_result(FALSE, "none", << >>, << >>),
             data |-> << >>, file_info |-> << >>, result |-> << >>]

NoCursor == [pos |-> 0, by |-> 0]

NoDefs == [made |-> FALSE, index |-> 0, def_cache |-> EmptyMap, id |-> 0, requested |-> FALSE]

Init ==
  /\ image \in 1..Len(Faults)
  /\ opened = "no"
  /\ indices = EmptyMap
  /\ poisoned = FALSE
  /\ provider = [made |-> FALSE, index |-> 0, archive |-> 0, by_name |-> << >>]
  /\ ret = NoCall
  /\ walks = << >>
  /\ nload = 0
  /\ defs = NoDefs
  /\ threads = [t \in Threads |-> NoThread]
  /\ clock = 0
  /\ cursor = NoCursor

\* what a call leaves in ret
Call(op, outcome) == [NoCall EXCEPT !.op = op, !.outcome = outcome]

Opened(r) ==
  /\ opened' = r.tag
  /\ indices' = r.indices
  /\ walks' = r.walks
  /\ ret' = Call("open", IF r.tag = "panic" THEN "panic" ELSE "returned")

\* Cache::from_path
Open ==
  /\ opened = "no"
  /\ Opened(from_path(disk))
  /\ UNCHANGED << image, poisoned, provider, nload, defs >>
  /\ UNCHANGED conc

\* FileProvider::from(cache)
FileProviderFrom ==
  /\ opened = "some"
  /\ ~provider.made
  /\ ~poisoned
  /\ provider' = [made |-> TRUE, index |-> 0, archive |-> 0, by_name |-> << >>]
  /\ ret' = Call("from", "returned")
  /\ walks' = << >>
  /\ UNCHANGED << image, opened, indices, poisoned, nload, defs >>
  /\ UNCHANGED conc

\* FileProvider::index(index)
Index(i) ==
  /\ provider.made
  /\ provider' = [provider EXCEPT !.index = i]
  /\ ret' = Call("index", "returned")
  /\ walks' = << >>
  /\ UNCHANGED << image, opened, indices, poisoned, nload, defs >>
  /\ UNCHANGED conc

\* FileProvider::archive(&id) with a u32
ArchiveById(a) ==
  /\ provider.made
  /\ provider' = [provider EXCEPT !.archive = a, !.by_name = << >>]
  /\ ret' = Call("archive", "returned")
  /\ walks' = << >>
  /\ UNCHANGED << image, opened, indices, poisoned, nload, defs >>
  /\ UNCHANGED conc

ArchiveNamed(name, h, checks) ==
  IF h.overflow /\ checks
    THEN /\ provider' = provider
         /\ ret' = [Call("archive", "panic") EXCEPT !.by_name = name]
    ELSE /\ provider' = [provider EXCEPT !.archive = U32(h.hash), !.by_name = name]
         /\ ret' = [Call("archive", "returned") EXCEPT !.by_name = name]

\* the builds to consider for a name whose hash is h
Builds(h) == IF h.overflow THEN BOOLEAN ELSE {TRUE}

\* FileProvider::archive(name) with a string: the id is the name's hash
ArchiveByName(name) ==
  /\ provider.made
  /\ \E checks \in Builds(get_name_hash(name)) :
        ArchiveNamed(name, get_name_hash(name), checks)
  /\ walks' = << >>
  /\ UNCHANGED << image, opened, indices, poisoned, nload, defs >>
  /\ UNCHANGED conc

Requested(f, r) ==
  /\ r.loaded => nload < MaxLoads
  /\ indices' = r.indices
  /\ poisoned' = r.poisoned
  /\ walks' = r.walks
  /\ nload' = IF r.loaded THEN nload + 1 ELSE nload
  /\ ret' = [op |-> "request", outcome |-> r.outcome, data |-> r.data, file |-> f,
             by_name |-> provider.by_name,
             io |-> r.io, loaded |-> r.loaded, chain |-> r.chain, codec |-> r.codec]

\* the outcomes of a call that ends as checked in a build with overflow
\* checks: also what a build without them makes of it, when that differs
RequestOutcomes(f, checked) ==
  IF checked.overflow
    THEN {checked, request(indices, poisoned, provider, disk, f, FALSE)}
    ELSE {checked}

\* the same for the FileProvider prov
RequestOutcomes_of(prov, f) ==
  IF request(indices, poisoned, prov, disk, f, TRUE).overflow
    THEN {request(indices, poisoned, prov, disk, f, TRUE),
          request(indices, poisoned, prov, disk, f, FALSE)}
    ELSE {request(indices, poisoned, prov, disk, f, TRUE)}

\* FileProvider::request(&file) with a u32
Request(f) ==
  /\ provider.made
  /\ \E r \in RequestOutcomes(f, request(indices, poisoned, provider, disk, f, TRUE)) :
        Requested(f, r)
  /\ UNCHANGED << image, opened, provider, defs >>
  /\ UNCHANGED conc

Next ==
  \/ Open
  \/ FileProviderFrom
  \/ \E i \in Indices : Index(i)
  \/ \E a \in ArchiveIds : ArchiveById(a)
  \/ \E name \in Names : ArchiveByName(name)
  \/ \E f \in FileIds : Request(f)

Spec == Init /\ [][Next]_vars

(***************************************************************************)
(* What the files say, read off the disk image without the reader: the     *)
(* fields of an idx record and of a sector header, and the chain that the  *)
(* next_sector fields form.                                                *)
(***************************************************************************)
DiskByte(bytes, k) == IF k < Len(bytes) THEN bytes[k + 1] ELSE 0

\* the size and first_sector fields of slot a of an idx file
SlotSize(idxfile, a) ==
  DiskByte(idxfile, 6 * a) * 65536 + DiskByte(idxfile, 6 * a + 1) * 256
    + DiskByte(idxfile, 6 * a + 2)
SlotFirst(idxfile, a) ==
  DiskByte(idxfile, 6 * a + 3) * 65536 + DiskByte(idxfile, 6 * a + 4) * 256
    + DiskByte(idxfile, 6 * a + 5)

OnDisk(dat, s) == s >= 0 /\ s < Len(dat)
SectorContainer(dat, s) == DiskByte(dat[s + 1], 0) * 256 + DiskByte(dat[s + 1], 1)
SectorPart(dat, s) == DiskByte(dat[s + 1], 2) * 256 + DiskByte(dat[s + 1], 3)
SectorNext(dat, s) ==
  DiskByte(dat[s + 1], 4) * 65536 + DiskByte(dat[s + 1], 5) * 256 + DiskByte(dat[s + 1], 6)
SectorIdx(dat, s) == DiskByte(dat[s + 1], 7)
SectorPrefix(dat, s, n) == [k \in 1..n |-> DiskByte(dat[s + 1], 7 + k)]

\* sector s is on the disk and its header names archive a, part p, index i
SectorBelongs(dat, s, a, p, i) ==
  /\ OnDisk(dat, s)
  /\ SectorContainer(dat, s) = a
  /\ SectorPart(dat, s) = p
  /\ SectorIdx(dat, s) = i

\* the first min(512, remaining) payload bytes of each sector of the chain
\* that starts at s, in chain order, until remaining bytes are taken
RECURSIVE ChainPayload(_, _, _)
ChainPayload(dat, s, remaining) ==
  IF remaining <= 0 \/ ~OnDisk(dat, s) THEN << >>
  ELSE SectorPrefix(dat, s, IF remaining > 512 THEN 512 ELSE remaining)
         \o ChainPayload(dat, SectorNext(dat, s), remaining - 512)

\* the payload bytes consumed along the chain that starts at s with part p:
\* it ends when remaining bytes are taken, at sector 0, or at a sector that
\* does not belong to archive a of index i
RECURSIVE ChainConsumed(_, _, _, _, _, _)
ChainConsumed(dat, s, p, remaining, a, i) ==
  IF remaining <= 0 \/ s = 0 \/ ~SectorBelongs(dat, s, a, p, i) THEN 0
  ELSE IF remaining <= 512 THEN remaining
  ELSE 512 + ChainConsumed(dat, SectorNext(dat, s), p + 1, remaining - 512, a, i)

\* the walks of the last call
Walks == {walks[k] : k \in 1..Len(walks)}

\* the record of walk w's archive, as the idx file has it
WalkSize(w) == SlotSize(disk.idx[w.file_id], w.container_id)
WalkFirst(w) == SlotFirst(disk.idx[w.file_id], w.container_id)

\* w got as far as the chain: the record passed the tests on its size and its
\* first sector
Walked(w) ==
  /\ WalkFirst(w) > 0
  /\ WalkSize(w) <= (IF w.file_id = 255 THEN 500000 ELSE 1000000)

(***************************************************************************)
(* The claims.                                                             *)
(***************************************************************************)
\* the file containers of archive a of index i in the map ix
Files(ix, i, a) == ix[i].container_info.containers[a].file_containers

\* C1: calling request twice in a row for the same (index, archive, file)
\* returns byte-equal payloads, and the second call reads neither the idx file
\* nor the data file, also when the payload is empty or the file id is not
\* listed in the archive.
C1_SecondRequestReadsNothing ==
  [][(/\ ret.op = "request" /\ ret.outcome = "returned"
      /\ ret'.op = "request" /\ ret'.file = ret.file
      /\ provider' = provider)
       => (ret'.outcome = "returned" /\ ret'.data = ret.data /\ ret'.io = 0)]_vars

\* C2: once a file's stored data is non-empty, no later call changes it,
\* whichever file of whichever archive the call asks for.
C2_StoredDataNeverChanges ==
  [][\A i \in DOMAIN indices :
       \A a \in DOMAIN indices[i].container_info.containers :
         \A f \in DOMAIN Files(indices, i, a) :
           Files(indices, i, a)[f].data # << >>
             => Files(indices', i, a)[f].data = Files(indices, i, a)[f].data]_vars

\* C3: every walk that returns Some returns exactly size bytes, size being the
\* 3-byte big-endian size field of the archive's slot in the idx file, and
\* they are the first min(512, remaining) payload bytes of each sector of the
\* chain, in chain order.
C3_WalkYieldsSizeBytesOfChain ==
  \A w \in Walks :
    w.ok => /\ Len(w.data) = WalkSize(w)
            /\ w.data = ChainPayload(disk.dat, WalkFirst(w), WalkSize(w))

\* a walk over two sectors returned the 513 bytes of its archive
C3_Witness ==
  \E w \in Walks : w.ok /\ WalkSize(w) = 513 /\ Len(w.visited) = 2 /\ Len(w.data) = 513

\* C4: every sector whose payload a walk appended has a header naming the
\* requested archive, the sector's 0-based position in the chain and the
\* index's file id; the first sector that does not ends the walk, which fails
\* and returns no bytes.
C4_AppendedSectorsBelong ==
  \A w \in Walks :
    \A j \in 1..Len(w.visited) :
      IF SectorBelongs(disk.dat, w.visited[j].sector, w.container_id, j - 1, w.file_id)
        THEN w.visited[j].appended
        ELSE /\ ~w.visited[j].appended
             /\ j = Len(w.visited)
             /\ ~w.ok
             /\ w.data = << >>

\* a walk appended its first sector and failed at its second, whose header
\* does not belong to the chain
C4_Witness ==
  \E w \in Walks :
    /\ Len(w.visited) = 2
    /\ w.visited[1].appended
    /\ OnDisk(disk.dat, w.visited[2].sector)
    /\ ~SectorBelongs(disk.dat, w.visited[2].sector, w.container_id, 1, w.file_id)
    /\ ~w.ok

\* C5: a walk succeeds exactly when size payload bytes have been consumed
\* along the chain; when a sector's next_sector is 0 before that, the walk
\* fails and returns nothing, never a short result.
C5_WalkSucceedsIffSizeConsumed ==
  \A w \in Walks :
    Walked(w) =>
      /\ w.ok <=> (ChainConsumed(disk.dat, WalkFirst(w), 0, WalkSize(w),
                                 w.container_id, w.file_id) = WalkSize(w))
      /\ Len(w.data) = (IF w.ok THEN WalkSize(w) ELSE 0)

\* a walk met next_sector 0 after 512 of 513 bytes and failed
C5_Witness ==
  \E w \in Walks :
    /\ Walked(w)
    /\ WalkSize(w) = 513
    /\ SectorNext(disk.dat, WalkFirst(w)) = 0
    /\ ChainConsumed(disk.dat, WalkFirst(w), 0, WalkSize(w), w.container_id, w.file_id) = 512
    /\ ~w.ok
    /\ w.data = << >>

\* the number of records of idx255
NumFiles == Len(disk.idx[255]) \div 6

\* C6: after a successful open, every i in 0..N-1 (N the number of records of
\* idx255) whose idx file exists has an index in the cache, index 0 included,
\* and no other i has one.
C6_OpenLoadsEveryIndex ==
  opened = "some" =>
    \A i \in 0..(NumFiles - 1) : (i \in DOMAIN disk.idx) <=> (i \in DOMAIN indices)

\* C7: after a successful open, the cache's index map has the id-255
\* CacheIndex (max_container_size 500000, empty directory) under key 255.
C7_InfoIndexStored ==
  opened = "some" =>
    /\ 255 \in DOMAIN indices
    /\ indices[255].file_id = 255
    /\ indices[255].max_container_size = 500000
    /\ indices[255].container_info.container_indices = << >>
    /\ DOMAIN indices[255].container_info.containers = {}

\* the unpacked directory has no protocol byte, or one that is neither 5 nor 6
NoProtocol(unpacked) ==
  unpacked.tag # "some" \/ unpacked.data = << >> \/ unpacked.data[1] \notin {5, 6}

\* the directory payload that walk w brought cannot be used: the walk failed,
\* or what it returned is empty, does not decompress, or has no protocol 5 or 6
Unusable(w) ==
  ~w.ok \/ w.data = << >> \/ NoProtocol(decompress_container_data(w.data))

\* C8: open never fails on a directory that cannot be obtained or parsed: the
\* cache is returned, and the index has an empty directory (no archive ids,
\* no archives).
C8_UnusableDirectoryIsEmpty ==
  ret.op = "open" =>
    \A w \in Walks :
      Unusable(w) =>
        /\ opened = "some"
        /\ w.container_id \in DOMAIN indices
        /\ indices[w.container_id].container_info.container_indices = << >>
        /\ DOMAIN indices[w.container_id].container_info.containers = {}

\* C9: a request whose walk fails, or whose data does not decompress, returns
\* to its caller: it does not panic, it leaves the lock usable and the cache
\* as it was, so that later requests are served.
C9_FailedReadOnlyAbortsRequest ==
  [][(/\ ret'.op = "request"
      /\ ret'.loaded
      /\ (ret'.chain # "ok" \/ ret'.codec # "some"))
       => (ret'.outcome = "returned" /\ ~poisoned' /\ indices' = indices)]_vars

\* the ids of the archives of index i whose name_hash is that of name
ArchivesNamed(i, name) ==
  {a \in DOMAIN indices[i].container_info.containers :
     indices[i].container_info.containers[a].name_hash = U32(get_name_hash(name).hash)}

\* when the request by id returns, so does the one by name, with the same
\* data
SameAsById(by_id, outcome, data) ==
  by_id.outcome = "returned" => (outcome = "returned" /\ data = by_id.data)

\* C10: a request by name is served from the archive whose name_hash in the
\* directory is the hash of the name: it returns what the request for the same
\* file of that archive by its numeric id returns.
C10_RequestByNameFindsArchive ==
  [][(/\ ret'.op = "request"
      /\ provider' = provider
      /\ provider.by_name # << >>
      /\ index_key(provider.index) \in DOMAIN indices)
       => \A a \in ArchivesNamed(index_key(provider.index), provider.by_name) :
            SameAsById(request(indices, poisoned, [provider EXCEPT !.archive = a],
                               disk, ret'.file, TRUE),
                       ret'.outcome, ret'.data)]_vars

\* the 32-bit hash of a name, kept as four bytes (the highest first): every
\* byte b of the lowercased name takes h to 31 * h + b modulo 2^32
Lower(b) == IF b \in 65..90 THEN b + 32 ELSE b

Times31Plus(h, b) ==
  << (h[1] * 31 + (h[2] * 31 + (h[3] * 31 + (h[4] * 31 + b) \div 256) \div 256) \div 256) % 256,
     (h[2] * 31 + (h[3] * 31 + (h[4] * 31 + b) \div 256) \div 256) % 256,
     (h[3] * 31 + (h[4] * 31 + b) \div 256) % 256,
     (h[4] * 31 + b) % 256 >>

RECURSIVE NameHashBytes(_, _)
NameHashBytes(h, name) ==
  IF name = << >> THEN h
  ELSE NameHashBytes(Times31Plus(h, Lower(Head(name))), Tail(name))

\* four bytes as the i32 with the same bits
BytesAsI32(h) ==
  (IF h[1] >= 128 THEN h[1] - 256 ELSE h[1]) * 16777216 + h[2] * 65536 + h[3] * 256 + h[4]

\* C11: get_name_hash(name) is the fold of h = b + (h << 5) - h over the bytes
\* of the lowercased name, modulo 2^32, for every name: an intermediate
\* overflow or underflow wraps and never aborts.
C11_NameHashWraps ==
  (ret.op = "archive" /\ ret.by_name # << >>) =>
    /\ ret.outcome = "returned"
    /\ provider.archive = BytesAsI32(NameHashBytes(<< 0, 0, 0, 0 >>, ret.by_name))

\* a name was hashed whose hash wrapped on the way, and the hash is its fold
\* modulo 2^32
C11_Wrapped ==
  /\ ret.op = "archive"
  /\ ret.by_name = Huffman
  /\ ret.outcome = "returned"
  /\ provider.archive = BytesAsI32(NameHashBytes(<< 0, 0, 0, 0 >>, Huffman))

\* the archive the provider points at, in the map ix
Archive(ix) == ix[index_key(provider.index)].container_info.containers[provider.archive]

\* what the request stored for the only file of its archive is all of B
StoredWhole(B, outcome, files_, file_ids) ==
  outcome = "returned" /\ files_[file_ids[1]].data = B

\* C12: when the archive lists exactly one file id, a request that read and
\* decompressed the archive's bytes B stores exactly B as that file's data,
\* whatever B's last byte and length.
C12_SingleFileStoredWhole ==
  [][(/\ ret'.op = "request" /\ ret'.loaded
      /\ ret'.chain = "ok" /\ ret'.codec = "some"
      /\ Len(Archive(indices).file_indices) = 1)
       => StoredWhole(get_requested_container_data(indices[index_key(provider.index)],
                                                   disk, provider.archive).data,
                      ret'.outcome, Archive(indices').file_containers,
                      Archive(indices).file_indices)]_vars

(***************************************************************************)
(* The stride table of a multi-file archive, read off the decompressed     *)
(* bytes B: n columns, B's last byte rows, 4 bytes an entry, the last row  *)
(* ending one byte before the end of B.  Entry m counts row by row.        *)
(***************************************************************************)
TableStart(B, n) == Len(B) - 1 - B[Len(B)] * n * 4

TableEntry(B, n, m) ==
  (IF B[TableStart(B, n) + 4 * m + 1] >= 128
     THEN B[TableStart(B, n) + 4 * m + 1] - 256
     ELSE B[TableStart(B, n) + 4 * m + 1]) * 16777216
    + B[TableStart(B, n) + 4 * m + 2] * 65536
    + B[TableStart(B, n) + 4 * m + 3] * 256
    + B[TableStart(B, n) + 4 * m + 4]

\* the length of segment m: the sum of the entries of its row up to its column
RECURSIVE SegmentLen(_, _, _)
SegmentLen(B, n, m) ==
  IF m % n = 0 THEN TableEntry(B, n, m)
  ELSE SegmentLen(B, n, m - 1) + TableEntry(B, n, m)

\* where segment m starts: segments follow one another from offset 0
RECURSIVE SegmentStart(_, _, _)
SegmentStart(B, n, m) ==
  IF m = 0 THEN 0 ELSE SegmentStart(B, n, m - 1) + SegmentLen(B, n, m - 1)

\* the segments of file id f among the segments m, m + 1, ..., in that order
RECURSIVE SegmentsOf(_, _, _, _)
SegmentsOf(B, ids, f, m) ==
  IF m >= B[Len(B)] * Len(ids) THEN << >>
  ELSE (IF ids[(m % Len(ids)) + 1] = f
          THEN SubSeq(B, SegmentStart(B, Len(ids), m) + 1,
                      SegmentStart(B, Len(ids), m) + SegmentLen(B, Len(ids), m))
          ELSE << >>)
         \o SegmentsOf(B, ids, f, m + 1)

RECURSIVE TotalLen(_, _)
TotalLen(files_, ids) ==
  IF ids = {} THEN 0
  ELSE Len(files_[CHOOSE f \in ids : TRUE].data)
         + TotalLen(files_, ids \ {CHOOSE f \in ids : TRUE})

\* the request ran the splitter on an archive of two or more file ids none of
\* whose files had data, and returned
FirstSplit ==
  /\ ret'.op = "request" /\ ret'.loaded /\ ret'.outcome = "returned"
  /\ ret'.chain = "ok" /\ ret'.codec = "some"
  /\ Len(Archive(indices).file_indices) >= 2
  /\ \A f \in DOMAIN Archive(indices).file_containers :
       Archive(indices).file_containers[f].data = << >>

\* the decompressed bytes of the archive the provider points at
ArchiveBytes ==
  get_requested_container_data(indices[index_key(provider.index)], disk, provider.archive).data

SumIsDataLength(B, n, files_) ==
  TotalLen(files_, DOMAIN files_) = Len(B) - 1 - B[Len(B)] * n * 4

\* C13, as claimed: after the splitter has run once on a multi-file archive,
\* the byte counts of its files add up to |B| - 1 - num_chunks * n * 4.
C13_SumIsDataBeforeTable ==
  [][FirstSplit => SumIsDataLength(ArchiveBytes, Len(Archive(indices).file_indices),
                                   Archive(indices').file_containers)]_vars

SplitInOrder(B, ids, files_) ==
  /\ \A f \in DOMAIN files_ : files_[f].data = SegmentsOf(B, ids, f, 0)
  /\ TotalLen(files_, DOMAIN files_) = SegmentStart(B, Len(ids), B[Len(B)] * Len(ids))

\* C13, amended: after the splitter has run once on a multi-file archive, the
\* segments emitted are consecutive slices of B from offset 0 in row-then-
\* column order, each as long as the sum of its row's entries up to its
\* column, and the byte counts of the files add up to the end of the last
\* segment.
C13_SegmentsConsecutiveInOrder ==
  [][FirstSplit => SplitInOrder(ArchiveBytes, Archive(indices).file_indices,
                                Archive(indices').file_containers)]_vars

\* the three files of archive 1 of index 2 were split from two rows
C13_Witness ==
  /\ ret.op = "request" /\ ret.loaded /\ ret.outcome = "returned"
  /\ provider.index = 2 /\ provider.archive = 1
  /\ nload = 1
  /\ Files(indices, 2, 1)[0].data = << 10, 30 >>
  /\ Files(indices, 2, 1)[1].data = << 20, 21 >>
  /\ Files(indices, 2, 1)[2].data = << 40 >>

StrictlyIncreasing(ids) == \A j \in 1..(Len(ids) - 1) : ids[j] < ids[j + 1]

\* archive_ids and every archive's file_ids are strictly increasing, and the
\* maps hold one entry for each of their elements
IdsIncrease(info) ==
  /\ StrictlyIncreasing(info.container_indices)
  /\ Cardinality(DOMAIN info.containers) = Len(info.container_indices)
  /\ \A a \in DOMAIN info.containers :
       /\ StrictlyIncreasing(info.containers[a].file_indices)
       /\ Cardinality(DOMAIN info.containers[a].file_containers)
            = Len(info.containers[a].file_indices)

\* C14: in every directory the decoder has produced, archive_ids is strictly
\* increasing, each archive's file_ids is strictly increasing, and the archives
\* and files maps have one entry for each element of those lists.
C14_IdsStrictlyIncrease ==
  \A i \in DOMAIN indices : IdsIncrease(indices[i].container_info)

(***************************************************************************)
(* DefProvider: definitions parsed from files of one index and kept by id. *)
(***************************************************************************)
\* tests/lib.rs, lines 56-64: the parser of the test, op is the first byte of
\* the file or 0
parse_buff(buffer) == IF Len(buffer) = 0 THEN 0 ELSE buffer[1]

\* DefProvider::with(cache, index)
DefProviderWith(i) ==
  /\ opened = "some"
  /\ ~defs.made
  /\ defs' = [NoDefs EXCEPT !.made = TRUE, !.index = i]
  /\ ret' = Call("with", "returned")
  /\ walks' = << >>
  /\ UNCHANGED << image, opened, indices, poisoned, provider, nload >>
  /\ UNCHANGED conc

\* line 111 without the test: every call goes to the files
def_cached_never(def_cache, id) == FALSE

\* line 111
def_cached(def_cache, id) == id \in DOMAIN def_cache

\* lines 111-113: the definition is in def_cache
get_def_stored(id) ==
  /\ defs' = [defs EXCEPT !.id = id, !.requested = FALSE]
  /\ ret' = [Call("get_def", "returned") EXCEPT !.data = << defs.def_cache[id] >>]
  /\ walks' = << >>
  /\ UNCHANGED << indices, poisoned, nload >>

\* line 115: FileProvider::from panics when the lock of the cache is poisoned
get_def_no_provider(id) ==
  /\ defs' = [defs EXCEPT !.id = id, !.requested = FALSE]
  /\ ret' = Call("get_def", "panic")
  /\ walks' = << >>
  /\ UNCHANGED << indices, poisoned, nload >>

\* lines 119-127: the request ended as r
get_def_parsed(id, r) ==
  /\ r.loaded => nload < MaxLoads
  /\ defs' = [defs EXCEPT !.id = id, !.requested = TRUE,
                          !.def_cache = IF r.outcome = "panic" THEN @
                                        ELSE Put(@, id, parse_buff(r.data))]
  /\ ret' = [op |-> "get_def", outcome |-> r.outcome,
             data |-> IF r.outcome = "panic" THEN << >> ELSE << parse_buff(r.data) >>,
             file |-> 0, by_name |-> << >>,
             io |-> r.io, loaded |-> r.loaded, chain |-> r.chain, codec |-> r.codec]
  /\ indices' = r.indices
  /\ poisoned' = r.poisoned
  /\ walks' = r.walks
  /\ nload' = IF r.loaded THEN nload + 1 ELSE nload

\* lines 115-119: a new FileProvider set to the index and the archive
get_def_provider(archive) ==
  [made |-> TRUE, index |-> defs.index, archive |-> archive, by_name |-> << >>]

\* DefProvider::get_def(archive, file, id), the archive's id being known
get_def(archive, file_id, id) ==
  IF def_cached(defs.def_cache, id) THEN get_def_stored(id)
  ELSE IF poisoned THEN get_def_no_provider(id)
  ELSE \E r \in RequestOutcomes_of(get_def_provider(archive), file_id) : get_def_parsed(id, r)

\* get_def(&archive, &file, id) with a u32 for the archive
GetDef(archive, file_id, id) ==
  /\ defs.made
  /\ get_def(archive, file_id, id)
  /\ UNCHANGED << image, opened, provider >>
  /\ UNCHANGED conc

\* get_def(&name, &file, id) with a string for the archive: line 118 hashes
\* the name, which panics on overflow in a build with overflow checks
GetDefByName(name, file_id, id) ==
  /\ defs.made
  /\ \E checks \in Builds(get_name_hash(name)) :
       IF get_name_hash(name).overflow /\ checks /\ ~def_cached(defs.def_cache, id) /\ ~poisoned
         THEN get_def_no_provider(id)
         ELSE get_def(U32(get_name_hash(name).hash), file_id, id)
  /\ UNCHANGED << image, opened, provider >>
  /\ UNCHANGED conc

DefIds == {1, 2}

DefNext ==
  \/ Open
  \/ \E i \in Indices : DefProviderWith(i)
  \/ \E a \in ArchiveIds, f \in FileIds, id \in DefIds : GetDef(a, f, id)
  \/ \E name \in Names, f \in FileIds, id \in DefIds : GetDefByName(name, f, id)

DefSpec == Init /\ [][DefNext]_vars

\* the last call was a get_def for an id that def_cache held
Memoized == ret'.op = "get_def" /\ defs.made /\ defs'.id \in DOMAIN defs.def_cache

\* C15: a get_def for an id whose definition is stored returns the stored
\* definition without making a FileProvider, requesting a file or reading
\* the disk, whatever archive and file it names.
C15_GetDefMemoizes ==
  [][Memoized =>
       /\ ret'.outcome = "returned"
       /\ ret'.data = << defs.def_cache[defs'.id] >>
       /\ ~defs'.requested
       /\ ret'.io = 0 /\ walks' = << >>
       /\ indices' = indices /\ poisoned' = poisoned
       /\ defs'.def_cache = defs.def_cache]_vars

\* a get_def answered from def_cache with a definition whose op is not 0
C15_Witness ==
  /\ ret.op = "get_def" /\ ret.outcome = "returned"
  /\ ~defs.requested
  /\ defs.id \in DOMAIN defs.def_cache
  /\ ret.data = << defs.def_cache[defs.id] >>
  /\ defs.def_cache[defs.id] # 0

(***************************************************************************)
(* CacheIndex::get_total_files, called as in test_file_amounts: on the     *)
(* index that Cache::index returns, under the lock of the cache.           *)
(***************************************************************************)
\* line 179
sorted_indices(container_indices) == SortSeq(container_indices, LAMBDA x, y : x < y)

\* lines 181-187, container_indices being sorted and not empty
total_files_of(ci_, ids) ==
  IF ids[Len(ids)] \notin DOMAIN ci_.container_info.containers THEN [tag |-> "panic", total |-> 0]
  ELSE [tag |-> "ok",
        total |-> Len(ci_.container_info.containers[ids[Len(ids)]].file_indices)
                    + (Len(ids) - 1) * 256]

\* lines 178-188: the index after the call and what the call returns
get_total_files_sorted(ci_, ids) ==
  [index |-> [ci_ EXCEPT !.container_info.container_indices = ids],
   result |-> IF ids = << >> THEN [tag |-> "panic", total |-> 0] ELSE total_files_of(ci_, ids)]

get_total_files(ci_) ==
  get_total_files_sorted(ci_, sorted_indices(ci_.container_info.container_indices))

TotalFiles(i, t) ==
  /\ indices' = [indices EXCEPT ![i] = t.index]
  /\ poisoned' = (t.result.tag = "panic")
  /\ ret' = [Call("get_total_files", IF t.result.tag = "panic" THEN "panic" ELSE "returned")
               EXCEPT !.data = << t.result.total >>]

\* cache.lock().unwrap().index(i).unwrap().get_total_files(): a panic leaves
\* the lock of the cache poisoned
GetTotalFiles(i) ==
  /\ opened = "some"
  /\ ~poisoned
  /\ i \in DOMAIN indices
  /\ TotalFiles(i, get_total_files(indices[i]))
  /\ walks' = << >>
  /\ UNCHANGED << image, opened, provider, nload, defs >>
  /\ UNCHANGED conc

TotalNext ==
  \/ Open
  \/ \E i \in Indices \cup {InfoIndexId} : GetTotalFiles(i)

TotalSpec == Init /\ [][TotalNext]_vars

\* the archive of info with the largest id
LargestArchive(info) ==
  info.containers[CHOOSE a \in DOMAIN info.containers :
                    \A b \in DOMAIN info.containers : b <= a]

\* apart from the order of archive_ids, which is ascending, after is before
SameButSorted(before, after) ==
  /\ [after EXCEPT !.container_info.container_indices = << >>]
       = [before EXCEPT !.container_info.container_indices = << >>]
  /\ \A j \in 1..(Len(after.container_info.container_indices) - 1) :
       after.container_info.container_indices[j] <= after.container_info.container_indices[j + 1]
  /\ \A a \in DOMAIN before.container_info.containers :
       Cardinality({j \in DOMAIN after.container_info.container_indices :
                      after.container_info.container_indices[j] = a})
         = Cardinality({j \in DOMAIN before.container_info.container_indices :
                          before.container_info.container_indices[j] = a})

TotalIs(i, outcome, total) ==
  /\ outcome = "returned"
  /\ total = << 256 * (Len(indices[i].container_info.container_indices) - 1)
                  + Len(LargestArchive(indices[i].container_info).file_indices) >>

\* C16: for every loaded index i, get_total_files returns
\* 256 * (|archive_ids| - 1) + the number of file ids of the archive with the
\* largest id, and leaves the index as it was but for archive_ids being
\* sorted ascending.
C16_TotalFilesOfEveryIndex ==
  [][\A i \in DOMAIN indices :
       GetTotalFiles(i) =>
         /\ TotalIs(i, ret'.outcome, ret'.data)
         /\ SameButSorted(indices[i], indices'[i])
         /\ \A j \in DOMAIN indices \ {i} : indices'[j] = indices[j]]_vars

\* an archive without the data of its files
ArchiveStructure(c) ==
  [c EXCEPT !.file_containers = [f \in DOMAIN c.file_containers |->
                                  [c.file_containers[f] EXCEPT !.data = << >>]]]

\* a CacheIndex without the data of its files
IndexStructure(ci_) ==
  [ci_ EXCEPT !.container_info.containers =
     [a \in DOMAIN ci_.container_info.containers |->
        ArchiveStructure(ci_.container_info.containers[a])]]

\* the archives of before, those of index i and id a excepted, are in after
\* as they were, data included
OnlyArchiveTouched(before, after, i, a) ==
  \A j \in DOMAIN before :
    \A b \in DOMAIN before[j].container_info.containers :
      (j # i \/ b # a) =>
        after[j].container_info.containers[b] = before[j].container_info.containers[b]

StructureKept(before, after) ==
  /\ DOMAIN after = DOMAIN before
  /\ \A j \in DOMAIN before : IndexStructure(after[j]) = IndexStructure(before[j])

\* C17: a request, whether it returns or panics, leaves the set of loaded
\* indices and everything in them but file data as it was, and changes file
\* data only in the requested archive of the requested index.
C17_RequestKeepsStructure ==
  [][ret'.op = "request" =>
       /\ StructureKept(indices, indices')
       /\ OnlyArchiveTouched(indices, indices', index_key(provider.index), provider.archive)]_vars

\* a request has stored the data of a file whose slot has a name hash
C17_Witness ==
  /\ ret.op = "request" /\ ret.loaded /\ ret.outcome = "returned"
  /\ provider.index = 1 /\ provider.archive = 1
  /\ Files(indices, 1, 1)[0].data # << >>
  /\ Files(indices, 1, 1)[0].name_hash # 0

(***************************************************************************)
(* A directory of protocol 5 with the whirlpool flag and without names, as *)
(* it lies in its sector: container header, protocol, settings, the number *)
(* n of archives, n id deltas, then 64 bytes for each archive.             *)
(***************************************************************************)
DirSector(d, i) == d.dat[SlotFirst(d.idx[InfoIndexId], i) + 1]

DirByte(d, i, k) == DiskByte(DirSector(d, i), SectorHeader + 5 + k)

HasWhirlpool(d, i) ==
  /\ InfoIndexId \in DOMAIN d.idx /\ i \in DOMAIN d.idx /\ d.has_dat
  /\ 6 * i < Len(d.idx[InfoIndexId])
  /\ SlotFirst(d.idx[InfoIndexId], i) \in 1..(Len(d.dat) - 1)
  /\ SlotSize(d.idx[InfoIndexId], i) \in 1..SectorPayload
  /\ DiskByte(DirSector(d, i), SectorHeader) = 0
  /\ DirByte(d, i, 0) = 5
  /\ DirByte(d, i, 1) = 2

\* the byte for file id f among the 64 bytes of the k-th archive (k from 0)
WhirlpoolByte(d, i, k, f) ==
  DirByte(d, i, 4 + 2 * (DirByte(d, i, 2) * 256 + DirByte(d, i, 3)) + WhirlpoolSize * k + f)

VersionsFromWhirlpool(d, i, info) ==
  \A k \in DOMAIN info.container_indices :
    \A f \in DOMAIN info.containers[info.container_indices[k]].file_containers :
      info.containers[info.container_indices[k]].file_containers[f].version
        = WhirlpoolByte(d, i, k - 1, f)

\* C18: when the directory of an index has the whirlpool flag, open completes
\* and every file of every archive has as its version the byte for its file
\* id among the 64 bytes of its archive.
C18_WhirlpoolVersionsSet ==
  \A i \in 1..3 :
    (opened # "no" /\ HasWhirlpool(disk, i)) =>
      /\ opened = "some"
      /\ i \in DOMAIN indices
      /\ VersionsFromWhirlpool(disk, i, indices[i].container_info)

\* the directory with archives 0 and 1 was decoded with its versions
C18_Contiguous ==
  /\ opened = "some" /\ HasWhirlpool(disk, 3)
  /\ 3 \in DOMAIN indices
  /\ indices[3].container_info.container_indices = << 0, 1 >>
  /\ VersionsFromWhirlpool(disk, 3, indices[3].container_info)
  /\ Files(indices, 3, 1)[1].version = 41

(***************************************************************************)
(* Threads.  The cache is open and shared (Arc<Mutex<Cache>>); each thread *)
(* makes a FileProvider of its own, whose data-file handle is a clone of   *)
(* the cache's behind a Mutex of its own, and requests files of index      *)
(* ConcIndex through it.  A step is what a thread does between two points  *)
(* where another thread can run and see or change what it shares: a        *)
(* section under the lock of the cache is one step, but for the walk of    *)
(* the sector chain, whose seeks and reads of the data file are steps.     *)
(***************************************************************************)
MaxRequests == 2
ConcIndex == 2
ConcArchives == {0, 1}
\* the base image, and the chain of archive 0 cut or mislabelled in its
\* second sector
ConcImages == {1, 2, 5}

ConcInit ==
  /\ image \in ConcImages
  /\ opened = "some"
  /\ indices = from_path(Disks[image]).indices
  /\ poisoned = FALSE
  /\ provider = [made |-> FALSE, index |-> 0, archive |-> 0, by_name |-> << >>]
  /\ ret = NoCall
  /\ walks = << >>
  /\ nload = 0
  /\ defs = NoDefs
  /\ threads = [t \in Threads |-> [NoThread EXCEPT !.pc = "new"]]
  /\ clock = 0
  /\ cursor = NoCursor

\* the thread t becomes th; what the threads do not touch stays
Thread(t, th) ==
  /\ threads' = [threads EXCEPT ![t] = th]
  /\ UNCHANGED << image, opened >>
  /\ UNCHANGED seq

\* a thread that panicked is gone
Panicked(th) == [th EXCEPT !.pc = "panicked"]

\* FileProvider::from (util.rs 161-188): lock the cache, lock its data file,
\* clone the handle
CFrom(t) ==
  /\ threads[t].pc = "new"
  /\ clock = 0
  /\ Thread(t, IF poisoned THEN Panicked(threads[t]) ELSE [threads[t] EXCEPT !.pc = "idle"])
  /\ UNCHANGED << indices, poisoned, clock, cursor >>

\* index(ConcIndex), archive(&a), and the call of request(&f)
CRequest(t, a, f) ==
  /\ threads[t].pc = "idle"
  /\ threads[t].requests < MaxRequests
  /\ Thread(t, [threads[t] EXCEPT !.pc = "check", !.archive = a, !.file = f,
                                  !.requests = @ + 1, !.result = << >>])
  /\ UNCHANGED << indices, poisoned, clock, cursor >>

\* lines 207-230, given the stored data of the file
request_checked(th, file_data) ==
  IF is_materialized(file_data)
    THEN [th EXCEPT !.pc = "idle", !.result = file_data]
    ELSE [th EXCEPT !.pc = "load"]

\* request, lines 207-230: under the lock of the cache, the data stored for
\* the file; the lock is released before the test of line 228
CCheck(t) ==
  /\ threads[t].pc = "check"
  /\ clock = 0
  /\ Thread(t, IF poisoned THEN Panicked(threads[t])
               ELSE request_checked(threads[t],
                      stored_data(Files(indices, ConcIndex, threads[t].archive),
                                  threads[t].file)))
  /\ UNCHANGED << indices, poisoned, clock, cursor >>

\* the guard of line 327 dropped at once
held_for_the_lookup(t) == 0

\* line 327: `let mut _cache = self.cache.lock().unwrap()` keeps the guard,
\* and so the lock of the cache, until the function returns
held_during_walk(t) == t

\* the head of the while loop of container_data (lib.rs 138-142)
walk_head(th, w, file_buff) ==
  IF ~chain_continues(th.size, w.data_read_count)
    THEN [th EXCEPT !.pc = "unpack", !.w = w, !.file_buff = file_buff,
                    !.walk = walk_result(TRUE, "none", w.container_data, w.visited)]
  ELSE IF chain_truncated(w.sector)
    THEN [th EXCEPT !.pc = "unpack", !.w = w, !.file_buff = file_buff,
                    !.walk = chain_truncated_result(w)]
  ELSE [th EXCEPT !.pc = "seek", !.w = w, !.file_buff = file_buff]

\* container_data up to its loop (lib.rs 112-136), the record of the idx
\* file being data
walk_begin(th, max_container_size, data) ==
  IF idx_container_size(data) > max_container_size
    THEN [th EXCEPT !.pc = "unpack", !.walk = walk_result(FALSE, "oversize", << >>, << >>)]
  ELSE IF idx_first_sector(data) <= 0
    THEN [th EXCEPT !.pc = "unpack", !.walk = walk_result(FALSE, "sector_le_zero", << >>, << >>)]
  ELSE walk_head([th EXCEPT !.size = idx_container_size(data)],
                 [NoWalk EXCEPT !.sector = idx_first_sector(data)], << >>)

\* get_requested_container_data, lines 327-336: lock the cache, lock the
\* provider's data file, read the record of the idx file
CWalkBegin(t) ==
  /\ threads[t].pc = "load"
  /\ clock = 0
  /\ IF poisoned
       THEN Thread(t, Panicked(threads[t])) /\ clock' = 0
       ELSE /\ Thread(t, walk_begin(threads[t], indices[ConcIndex].max_container_size,
                                    idx_record(disk.idx[indices[ConcIndex].file_id],
                                               threads[t].archive)))
            /\ clock' = held_during_walk(t)
  /\ UNCHANGED << indices, poisoned, cursor >>

\* lib.rs 144: data_file.seek(520 * sector)
CSeek(t) ==
  /\ threads[t].pc = "seek"
  /\ cursor' = [pos |-> threads[t].w.sector, by |-> t]
  /\ Thread(t, [threads[t] EXCEPT !.pc = "read"])
  /\ UNCHANGED << indices, poisoned, clock >>

\* lib.rs 159-171, file_buff being what the read left in the buffer
walk_sector(th, file_id, file_buff) ==
  IF ~header_matches(th.archive, th.w.part, file_id, file_buff)
    THEN [th EXCEPT !.pc = "unpack", !.file_buff = file_buff,
                    !.walk = walk_result(FALSE, "multipart", << >>,
                               Append(th.w.visited, [sector |-> th.w.sector, appended |-> FALSE]))]
    ELSE walk_head(th, chain_advance(th.w, file_buff,
                                     data_to_read(th.size, th.w.data_read_count)),
                   file_buff)

\* lib.rs 152: data_file.read(&mut file_buff) reads where the data file is
\* positioned and moves the position on
CRead(t) ==
  /\ threads[t].pc = "read"
  /\ cursor' = [pos |-> IF cursor.pos < Len(disk.dat) THEN cursor.pos + 1 ELSE cursor.pos,
                by |-> t]
  /\ Thread(t, walk_sector(threads[t], indices[ConcIndex].file_id,
                           read_sector(disk.dat, cursor.pos, threads[t].file_buff)))
  /\ UNCHANGED << indices, poisoned, clock >>

\* lines 336-342, g being what became of the walk's result
unpacked_walk(th, g) ==
  IF g.tag = "panic" THEN Panicked(th) ELSE [th EXCEPT !.pc = "info", !.data = g.data]

\* get_requested_container_data, lines 336-342: decompress and return,
\* which drops both guards; a panic of the codec poisons the lock
CUnpack(t) ==
  /\ threads[t].pc = "unpack"
  /\ Thread(t, unpacked_walk(threads[t], unpack_walk(threads[t].walk)))
  /\ poisoned' = (poisoned \/ unpack_walk(threads[t].walk).tag = "panic")
  /\ clock' = 0
  /\ UNCHANGED << indices, cursor >>

\* get_container_file_info, lines 345-368
CInfo(t) ==
  /\ threads[t].pc = "info"
  /\ clock = 0
  /\ Thread(t, IF poisoned THEN Panicked(threads[t])
               ELSE [threads[t] EXCEPT !.pc = "split",
                       !.file_info = get_container_file_info(indices[ConcIndex],
                                                             threads[t].archive)])
  /\ UNCHANGED << indices, poisoned, clock, cursor >>

\* load_requested_container_files from line 260 on, ending as l: a panic
\* before line 268 holds no lock, a poisoned lock makes line 270 return
Split(t, l) ==
  IF l.tag = "panic" /\ ~l.locked
    THEN Thread(t, Panicked(threads[t])) /\ UNCHANGED << indices, poisoned >>
  ELSE IF poisoned
    THEN Thread(t, [threads[t] EXCEPT !.pc = "reread"]) /\ UNCHANGED << indices, poisoned >>
  ELSE /\ Thread(t, IF l.tag = "panic" THEN Panicked(threads[t])
                    ELSE [threads[t] EXCEPT !.pc = "reread"])
       /\ indices' = [indices EXCEPT ![ConcIndex].container_info
                                        .containers[threads[t].archive].file_containers = l.files]
       /\ poisoned' = (l.tag = "panic")

\* what the splitter makes of the thread's data in a build with overflow
\* checks and, where that differs, in one without
SplitOutcomes(th, files) ==
  IF load_requested_container_files(th.data, th.file_info, files, TRUE).overflow
    THEN {load_requested_container_files(th.data, th.file_info, files, TRUE),
          load_requested_container_files(th.data, th.file_info, files, FALSE)}
    ELSE {load_requested_container_files(th.data, th.file_info, files, TRUE)}

\* load_requested_container_files, lines 260-323: the segments are appended
\* under the lock of the cache, taken anew at line 268
CSplit(t) ==
  /\ threads[t].pc = "split"
  /\ clock = 0
  /\ \E l \in SplitOutcomes(threads[t], Files(indices, ConcIndex, threads[t].archive)) :
       Split(t, l)
  /\ UNCHANGED << clock, cursor >>

\* request, lines 233-252: the data stored for the file, under the lock
CReread(t) ==
  /\ threads[t].pc = "reread"
  /\ clock = 0
  /\ Thread(t, IF poisoned THEN Panicked(threads[t])
               ELSE [threads[t] EXCEPT !.pc = "idle",
                       !.result = stored_data(Files(indices, ConcIndex, threads[t].archive),
                                              threads[t].file)])
  /\ UNCHANGED << indices, poisoned, clock, cursor >>

ConcNext ==
  \E t \in Threads :
    \/ CFrom(t)
    \/ \E a \in ConcArchives, f \in FileIds : CRequest(t, a, f)
    \/ CCheck(t)
    \/ CWalkBegin(t)
    \/ CSeek(t)
    \/ CRead(t)
    \/ CUnpack(t)
    \/ CInfo(t)
    \/ CSplit(t)
    \/ CReread(t)

ConcSpec == ConcInit /\ [][ConcNext]_vars

\* the thread is between the first seek and the last read of a walk
InWalk(t) ==
  \/ threads[t].pc = "read"
  \/ threads[t].pc = "seek" /\ threads[t].w.visited # << >>

\* C19: at most one thread is between the first seek and the last read of a
\* sector-chain walk, and a thread about to read finds the data file where
\* its own seek has put it.
C19_WalksExclusive ==
  /\ Cardinality({t \in Threads : InWalk(t)}) <= 1
  /\ \A t \in Threads :
       threads[t].pc = "read" => cursor = [pos |-> threads[t].w.sector, by |-> t]

\* a thread is about to read the second sector of a chain while another
\* waits to walk
C19_Witness ==
  \E t \in Threads, u \in Threads :
    /\ t # u
    /\ threads[t].pc = "read" /\ threads[t].w.visited # << >>
    /\ threads[u].pc = "load"

\* what the splitter stores for file f of archive a: its segments of the
\* archive's decompressed bytes B
Payload(B, ids, f) == SegmentsOf(B, ids, f, 0)

ConcBytes(a) == get_requested_container_data(indices[ConcIndex], disk, a).data

OncePerFile(B, ids, files_) ==
  \A f \in DOMAIN files_ : files_[f].data \in {<< >>, Payload(B, ids, f)}

\* C20: whatever the threads do, the data stored for a file of the three-file
\* archive 1 is empty or the file's payload, once.
C20_MaterializedOnce ==
  OncePerFile(ConcBytes(1), indices[ConcIndex].container_info.containers[1].file_indices,
              Files(indices, ConcIndex, 1))

(***************************************************************************)
(* The walk of a sector chain on its own, a seek and a read at a time, for *)
(* every idx file and every slot of every disk image: container_data of    *)
(* the CacheIndex of idx file provider.index, asked for container          *)
(* threads[1].archive.  The thread that runs the loop keeps running, which *)
(* is the fairness of WalkSpec.                                            *)
(***************************************************************************)
WalkIndices == {0, 1, 2, InfoIndexId}
WalkContainers == 0..3

\* lib.rs 47 and 73: the limit of the id-255 index and of the others
max_container_size_of(file_id) ==
  IF file_id = InfoIndexId THEN InfoMaxContainerSize ELSE IndexMaxContainerSize

WalkInit ==
  /\ image \in 1..Len(Faults)
  /\ opened = "no"
  /\ indices = EmptyMap
  /\ poisoned = FALSE
  /\ provider = [made |-> FALSE, index |-> 0, archive |-> 0, by_name |-> << >>]
  /\ ret = NoCall
  /\ walks = << >>
  /\ nload = 0
  /\ defs = NoDefs
  /\ threads = [t \in Threads |-> IF t = 1 THEN [NoThread EXCEPT !.pc = "idle"] ELSE NoThread]
  /\ clock = 0
  /\ cursor = NoCursor

\* what a walk leaves alone
WalkFrame == UNCHANGED << image, opened, indices, poisoned, ret, walks, nload, defs, clock >>

\* container_data(data_file, a) of the CacheIndex of idx file i, up to the
\* loop (lib.rs 111-136)
WalkBegin(i, a) ==
  /\ threads[1].pc = "idle"
  /\ i \in DOMAIN disk.idx /\ disk.has_dat
  /\ provider' = [provider EXCEPT !.index = i, !.archive = a]
  /\ threads' = [threads EXCEPT ![1] =
                   walk_begin([NoThread EXCEPT !.archive = a], max_container_size_of(i),
                              idx_record(disk.idx[i], a))]
  /\ UNCHANGED cursor
  /\ WalkFrame

\* lib.rs 144
WalkSeek ==
  /\ threads[1].pc = "seek"
  /\ cursor' = [pos |-> threads[1].w.sector, by |-> 1]
  /\ threads' = [threads EXCEPT ![1].pc = "read"]
  /\ UNCHANGED provider
  /\ WalkFrame

\* lib.rs 152-171
WalkRead ==
  /\ threads[1].pc = "read"
  /\ cursor' = [pos |-> IF cursor.pos < Len(disk.dat) THEN cursor.pos + 1 ELSE cursor.pos,
                by |-> 1]
  /\ threads' = [threads EXCEPT ![1] =
                   walk_sector(threads[1], provider.index,
                               read_sector(disk.dat, cursor.pos, threads[1].file_buff))]
  /\ UNCHANGED provider
  /\ WalkFrame

\* container_data returns (lib.rs 173-175, and the returns of None)
WalkEnd ==
  /\ threads[1].pc = "unpack"
  /\ threads' = [threads EXCEPT ![1] = [NoThread EXCEPT !.pc = "idle"]]
  /\ UNCHANGED << provider, cursor >>
  /\ WalkFrame

WalkNext ==
  \/ \E i \in WalkIndices, a \in WalkContainers : WalkBegin(i, a)
  \/ WalkSeek
  \/ WalkRead
  \/ WalkEnd

WalkSpec == WalkInit /\ [][WalkNext]_vars /\ WF_vars(WalkSeek) /\ WF_vars(WalkRead)

\* the number of sectors that hold size bytes
SectorsFor(size) == (size + SectorPayload - 1) \div SectorPayload

\* the walk has read no more sectors than its size needs, and its size is
\* within the limit of its index
WalkBounded(th) ==
  /\ Len(th.w.visited) <= SectorsFor(th.size)
  /\ Len(th.walk.visited) <= SectorsFor(th.size)
  /\ th.size <= max_container_size_of(provider.index)

\* a read ends the walk with None or adds at least one byte
ReadConsumes(th, after) ==
  th.pc = "read" =>
    \/ after.pc = "unpack" /\ ~after.walk.ok
    \/ after.w.data_read_count > th.w.data_read_count

InLoop == threads[1].pc \in {"seek", "read"}

\* C21: the walk of a sector chain ends, whatever the idx and data files
\* hold: each read either ends the walk with None or adds at least one byte,
\* no more than ceil(size / 512) sectors are read, size is within the limit
\* of the index, and a walk that is in its loop comes out of it.
C21_WalkTerminates ==
  /\ []WalkBounded(threads[1])
  /\ [][ReadConsumes(threads[1], threads'[1])]_vars
  /\ (InLoop ~> threads[1].pc = "unpack")

\* the sector that points at itself was read once and the walk has ended
C21_Witness ==
  /\ threads[1].pc = "unpack"
  /\ ~threads[1].walk.ok
  /\ Len(threads[1].walk.visited) = 2
  /\ threads[1].walk.visited[1].sector = threads[1].walk.visited[2].sector

====
